---- MODULE Spec2Model ----
(***************************************************************************)
(* Write-back entity caches of tg-chat-manager (src/core/managers).        *)
(*                                                                         *)
(* Every manager owns an in-memory map (_cache), a set of keys pending     *)
(* persistence (_dirty) and an asyncio lock; the relational store is       *)
(* reached through Tortoise ORM calls.  The program runs on one asyncio    *)
(* event loop: a coroutine runs without interruption until it awaits a     *)
(* store call, the store executes the call at some later instant, and the  *)
(* coroutine resumes at some instant after that.  The lock is never        *)
(* contended in the managers modelled here (no holder awaits while holding *)
(* it), so `async with self._lock` never suspends.  One action of this     *)
(* module is therefore either                                              *)
(*   - the in-memory code a coroutine runs between two suspensions, or     *)
(*   - the effect of one store call on the store.                          *)
(*                                                                         *)
(* One behaviour follows one manager instance; the variable mgr says       *)
(* which one (the managers share the names _cache and _dirty in the        *)
(* source, and the variables cache and dirty here).                        *)
(***************************************************************************)
EXTENDS Integers, Sequences, FiniteSets, TLC

VARIABLES
    mgr,        \* which manager this behaviour is about
    cache,      \* self._cache : key -> cached record (a partial function)
    dirty,      \* self._dirty : set of keys
    store,      \* the manager's table: a set of rows
    nextId,     \* the table's auto-increment primary key
    pc,         \* per client coroutine: where it is suspended
    arg,        \* per client coroutine: its arguments and locals
    syncPc,     \* the sync() coroutine: where it is suspended
    payloads,   \* sync(): the deep-copied snapshot, key -> record
    toUpdate,   \* sync(): rows handed to bulk_update
    toCreate,   \* sync(): rows handed to bulk_create
    win,        \* history: per key, what clients did since sync()'s snapshot
    kept,       \* history: keys the last sync() left dirty after an edit
    removed,    \* history: keys whose remove() returned, no call on them since
    syncExit,   \* history: how the last sync() call ended
    ops,        \* number of client operations started
    closeAt,    \* managers.close(): position in to_init (0: not running)
    closePc,    \* managers.close(): the call of the loop body it is in
    finalSynced,\* managers.close(): managers whose final sync() was invoked
    closeExit   \* managers.close(): how it ended

closeVars == <<closeAt, closePc, finalSynced, closeExit>>

vars == <<mgr, cache, dirty, store, nextId, pc, arg, syncPc, payloads,
          toUpdate, toCreate, win, kept, removed, syncExit, ops, closeVars>>

----------------------------------------------------------------------------
(* Bounds of the model. *)

\* field values are 0..MaxVal; 0 stands for the column default (None, 0)
MaxVal == 1
\* primary keys the store hands out
MaxId == 2
\* client operations started in one behaviour
MaxOps == 3

\* the cap of the model on InviteLink.used_count, which the code never bounds
MaxUsed == 2

\* InviteLink.max_uses, the column default
MaxUses == 1

Keys == {1}
Vals == 0..MaxVal
Clients == {"c1", "c2"}

NoFields == [x \in {} |-> 0]
NoArg == [op |-> "none", key |-> 0, fields |-> NoFields, model |-> {},
          raced |-> FALSE, detached |-> FALSE]

----------------------------------------------------------------------------
(* UserCache / ChatCache: records and the store. *)

UCManagers == {"users", "chats"}

\* the managers whose cache follows the probe / bulk_update / bulk_create sync
RowManagers == UCManagers \cup {"user_roles"}

\* the managers whose sync() upserts the snapshot and then clears it
ClrManagers == {"mutes", "chat_settings", "invite_links", "cluster_settings"}

CacheManagers == RowManagers \cup ClrManagers

\* the column(s) of the cache key.  A composite key (tg_user_id, tg_chat_id)
\* or (chat, key) is followed through its first or last component, the other
\* one being the same for every record of a behaviour
KeyField(m) ==
    CASE m = "users" -> "tg_user_id"
      [] m = "chats" -> "tg_chat_id"
      [] m = "user_roles" -> "tg_user_id"
      [] m = "mutes" -> "tg_user_id"
      [] m = "invite_links" -> "token"
      [] OTHER -> "key"

\* the columns sync() compares and writes.  UserCache reads and writes
\* messages_count (users.py 104, 141, 233-236) although models.py 46-65
\* declares no such column on User; the model takes the column to exist, the
\* reading under which UserCache runs at all.
SyncFields(m) ==
    CASE m = "users" -> {"username", "messages_count"}
      [] m = "chats" -> {"title", "infinite_invite_link"}
      [] m = "user_roles" -> {"level", "assigned_by_id"}
      [] m = "mutes" -> {"reason"}
      [] m = "invite_links" -> {"used_count", "is_active"}
      [] m = "invite_usage" -> {"used_at"}
      [] OTHER -> {"value"}

\* the columns a record carries that no call after its creation writes
ConfigFields(m) == IF m = "invite_links" THEN {"max_uses"} ELSE {}

\* the columns sync() passes to the model constructor for bulk_create
CreateFields(m) ==
    IF m = "chats" THEN {"title"} ELSE SyncFields(m) \cup ConfigFields(m)

\* the fields of the cached dataclass (and of a table row)
RecordFields(m) == {"id", KeyField(m)} \cup SyncFields(m) \cup ConfigFields(m)

\* the fields the last locked section of sync() compares with the snapshot
RecheckFields(m) == IF m \in UCManagers THEN RecordFields(m) ELSE SyncFields(m)

\* the column defaults of models.py
Default(f) ==
    IF f = "is_active" THEN 1 ELSE IF f = "max_uses" THEN MaxUses ELSE 0

\* Model(**kwargs): a row with the given columns, the others at their default
NewRow(m, id, k, given) ==
    [f \in RecordFields(m) |->
        IF f = "id" THEN id
        ELSE IF f = KeyField(m) THEN k
        ELSE IF f \in DOMAIN given THEN given[f]
        ELSE Default(f)]

RowsOf(S, k) == {r \in S : r[KeyField(mgr)] = k}

\* _CachedUser(id=row.id, tg_user_id=row.tg_user_id, ...): field by field
CachedFrom(row) == [f \in RecordFields(mgr) |-> row[f]]

\* a faulty merge, which drops the new values: C7 must not survive it
MergeDropsFields(rec, fields) == rec

\* for field, value in fields.items(): if hasattr(cached, field): setattr(...)
Merge(rec, fields) ==
    [f \in DOMAIN rec |-> IF f \in DOMAIN fields THEN fields[f] ELSE rec[f]]

\* del self._cache[key]
Evict(c, k) == [x \in (DOMAIN c) \ {k} |-> c[x]]

\* self._cache[key] = rec
Put(c, k, rec) == [x \in (DOMAIN c) \cup {k} |-> IF x = k THEN rec ELSE c[x]]

\* a faulty initialize(), which caches a blank record per row: C33 must not
\* survive it
InitializeBlank(S) ==
    [k \in {r[KeyField(mgr)] : r \in S} |->
        CachedFrom(NewRow(mgr, 0, k, NoFields))]

\* initialize(): one cached record per row, keyed by the business key
Initialize(S) ==
    [k \in {r[KeyField(mgr)] : r \in S} |->
        CachedFrom(CHOOSE r \in S : r[KeyField(mgr)] = k)]

\* get(cache_key, fields: str)
Get(c, k, f) ==
    IF k \notin DOMAIN c THEN 0
    ELSE IF f \in DOMAIN c[k] THEN c[k][f] ELSE 0

\* the keys some client coroutine is working on right now
InFlight == {arg[c].key : c \in {d \in Clients : pc[d] # "idle"}}

\* a new call takes the first free coroutine (the coroutines are
\* interchangeable)
Free(c) ==
    /\ pc[c] = "idle"
    /\ ops < MaxOps
    /\ c = "c2" => pc["c1"] # "idle"

\* history: the coroutines running one of the calls in callOps on key k
\* are marked as having overlapped a conflicting call
Mark(a, k, callOps) ==
    [d \in Clients |->
        IF pc[d] # "idle" /\ a[d].key = k /\ a[d].op \in callOps
        THEN [a[d] EXCEPT !.raced = TRUE]
        ELSE a[d]]

\* the coroutines suspended in add_role with a reference to the record of k
\* keep that object when the cache entry is deleted or replaced
Detach(a, k) ==
    [d \in Clients |->
        IF pc[d] = "assign_io" /\ a[d].key = k
        THEN [a[d] EXCEPT !.detached = TRUE]
        ELSE a[d]]

\* history bookkeeping of a client step on key k
Touch(k) ==
    /\ win' = IF syncPc = "idle" THEN win ELSE [win EXCEPT ![k] = "touched"]
    /\ kept' = kept \ {k}

\* history bookkeeping of an edit that ran in one piece on key k
TouchEdit(k) ==
    /\ win' = IF syncPc = "idle" THEN win
             ELSE [win EXCEPT ![k] = IF @ = "touched" THEN "touched" ELSE "edited"]
    /\ kept' = kept \ {k}

----------------------------------------------------------------------------
(* UserCache / ChatCache: client operations. *)

\* what _ensure_cached hands back for a cached key (users.py 124-125,
\* chats.py 112-113): the cached record, and no created flag
EnsureCachedResult(c0, k) == [record |-> {c0[k]}, created |-> {}]

\* _ensure_cached, first locked section (users.py 123-127)
EnsureStart(c, k, given) ==
    /\ mgr \in UCManagers
    /\ Free(c)
    /\ ops' = ops + 1
    /\ IF k \in DOMAIN cache
       THEN /\ UNCHANGED <<pc, arg, win, kept>>
       ELSE /\ pc' = [pc EXCEPT ![c] = "ensure_io"]
            /\ arg' = [Mark(arg, k, {"remove"}) EXCEPT ![c] =
                          [op |-> "ensure", key |-> k, fields |-> given,
                           model |-> {}, raced |-> FALSE, detached |-> FALSE]]
            /\ Touch(k)
    /\ removed' = removed \ {k}
    /\ UNCHANGED <<closeVars, mgr, cache, dirty, store, nextId, syncPc,
                   payloads,
                   toUpdate, toCreate, syncExit>>

\* a faulty locked section of edit(), in which the first writer of a dirty
\* key wins: C31 must not survive it
EditMergeFirstWins(c0, d0, k, fields) ==
    IF k \in DOMAIN c0
    THEN <<IF k \in d0 THEN c0 ELSE Put(c0, k, Merge(c0[k], fields)),
           d0 \cup {k}>>
    ELSE <<c0, d0>>

\* edit(), its locked section (users.py 176-183)
EditMerge(c0, d0, k, fields) ==
    IF k \in DOMAIN c0
    THEN <<Put(c0, k, Merge(c0[k], fields)), d0 \cup {k}>>
    ELSE <<c0, d0>>

\* edit() on a key found in the cache: no store call, one uninterrupted run
EditCached(c, k, fields) ==
    /\ mgr \in UCManagers
    /\ Free(c)
    /\ k \in DOMAIN cache
    /\ ops' = ops + 1
    /\ cache' = EditMerge(cache, dirty, k, fields)[1]
    /\ dirty' = EditMerge(cache, dirty, k, fields)[2]
    /\ TouchEdit(k)
    /\ removed' = removed \ {k}
    /\ UNCHANGED <<closeVars, mgr, store, nextId, pc, arg, syncPc, payloads,
                   toUpdate,
                   toCreate, syncExit>>

\* edit() on a key not in the cache: _ensure_cached goes to the store
EditStart(c, k, fields) ==
    /\ mgr \in UCManagers
    /\ Free(c)
    /\ k \notin DOMAIN cache
    /\ ops' = ops + 1
    /\ pc' = [pc EXCEPT ![c] = "ensure_io"]
    /\ arg' = [Mark(arg, k, {"remove"}) EXCEPT ![c] =
                  [op |-> "edit", key |-> k, fields |-> fields, model |-> {},
                   raced |-> FALSE, detached |-> FALSE]]
    /\ Touch(k)
    /\ removed' = removed \ {k}
    /\ UNCHANGED <<closeVars, mgr, cache, dirty, store, nextId, syncPc,
                   payloads,
                   toUpdate, toCreate, syncExit>>

\* a faulty get_or_create, which inserts without looking the key up: C5 must
\* not survive it
CreateWithoutLookup(S, n, k, given) ==
    <<S \cup {NewRow(mgr, n, k, given)}, n + 1, NewRow(mgr, n, k, given)>>

\* Model.get_or_create(key, defaults): <<store after, next id after, the row>>
GetOrCreate(S, n, k, given) ==
    IF RowsOf(S, k) # {}
    THEN <<S, n, CHOOSE r \in RowsOf(S, k) : TRUE>>
    ELSE <<S \cup {NewRow(mgr, n, k, given)}, n + 1, NewRow(mgr, n, k, given)>>

\* repo.ensure_record executes in the store (users.py 66-77, 128)
EnsureIO(c) ==
    /\ mgr \in RowManagers
    /\ pc[c] = "ensure_io"
    /\ LET k == arg[c].key
           r == GetOrCreate(store, nextId, k, arg[c].fields)
       IN /\ (RowsOf(store, k) = {} => nextId <= MaxId)
          /\ store' = r[1]
          /\ nextId' = r[2]
          /\ arg' = [arg EXCEPT ![c].model = {r[3]}]
          /\ pc' = [pc EXCEPT ![c] = "ensure_commit"]
          /\ Touch(k)
    /\ UNCHANGED <<closeVars, mgr, cache, dirty, syncPc, payloads, toUpdate,
                   toCreate,
                   syncExit, ops, removed>>

\* repo.ensure_record raises: the exception leaves _ensure_cached / edit
EnsureIOFails(c) ==
    /\ mgr \in RowManagers
    /\ pc[c] = "ensure_io"
    /\ pc' = [pc EXCEPT ![c] = "idle"]
    /\ arg' = [arg EXCEPT ![c] = NoArg]
    /\ Touch(arg[c].key)
    /\ UNCHANGED <<closeVars, mgr, cache, dirty, store, nextId, syncPc,
                   payloads,
                   toUpdate, toCreate, syncExit, ops, removed>>

\* _ensure_cached, second locked section (users.py 129-146); for edit() the
\* locked section of edit follows without a suspension in between
EnsureCommit(c) ==
    /\ mgr \in UCManagers
    /\ pc[c] = "ensure_commit"
    /\ LET k == arg[c].key
           model == CHOOSE r \in arg[c].model : TRUE
           inserted == Put(cache, k, CachedFrom(model))
       IN /\ IF arg[c].op = "edit"
             THEN /\ cache' = EditMerge(inserted, dirty, k, arg[c].fields)[1]
                  /\ dirty' = EditMerge(inserted, dirty, k, arg[c].fields)[2]
             ELSE /\ cache' = inserted
                  /\ dirty' = dirty
          /\ Touch(k)
    /\ pc' = [pc EXCEPT ![c] = "idle"]
    /\ arg' = [arg EXCEPT ![c] = NoArg]
    /\ UNCHANGED <<closeVars, mgr, store, nextId, syncPc, payloads, toUpdate,
                   toCreate,
                   syncExit, ops, removed>>

\* remove(), its locked section (users.py 186-192)
RemoveStart(c, k) ==
    /\ mgr \in RowManagers
    /\ Free(c)
    /\ ops' = ops + 1
    /\ cache' = IF k \in DOMAIN cache THEN Evict(cache, k) ELSE cache
    /\ dirty' = IF k \in DOMAIN cache THEN dirty \ {k} ELSE dirty
    /\ pc' = [pc EXCEPT ![c] = "remove_io"]
    /\ arg' = [Detach(arg, k) EXCEPT ![c] =
                  [op |-> "remove", key |-> k, fields |-> NoFields, model |-> {},
                   raced |-> k \in InFlight, detached |-> FALSE]]
    /\ Touch(k)
    /\ removed' = removed \ {k}
    /\ UNCHANGED <<closeVars, mgr, store, nextId, syncPc, payloads, toUpdate,
                   toCreate,
                   syncExit>>

\* Model.filter(key=...).delete()
DeleteRecord(S, k) == S \ RowsOf(S, k)

\* repo.delete_record_by_tg executes in the store (users.py 85-86, 193)
RemoveIO(c) ==
    /\ mgr \in RowManagers
    /\ pc[c] = "remove_io"
    /\ store' = DeleteRecord(store, arg[c].key)
    /\ pc' = [pc EXCEPT ![c] = "idle"]
    /\ arg' = [Mark(arg, arg[c].key, {"ensure", "edit", "add_role"}) EXCEPT ![c] = NoArg]
    /\ Touch(arg[c].key)
    /\ removed' = IF arg[c].raced THEN removed \ {arg[c].key}
                  ELSE removed \cup {arg[c].key}
    /\ UNCHANGED <<closeVars, mgr, cache, dirty, nextId, syncPc, payloads,
                   toUpdate,
                   toCreate, syncExit, ops>>

\* the delete raises: the exception leaves remove()
RemoveIOFails(c) ==
    /\ mgr \in RowManagers
    /\ pc[c] = "remove_io"
    /\ pc' = [pc EXCEPT ![c] = "idle"]
    /\ arg' = [arg EXCEPT ![c] = NoArg]
    /\ Touch(arg[c].key)
    /\ UNCHANGED <<closeVars, mgr, cache, dirty, store, nextId, syncPc,
                   payloads,
                   toUpdate, toCreate, syncExit, ops, removed>>

\* The counter is followed through MaxCount increments.
MaxCount == 2

\* increment_messages_count as an unlocked read-modify-write: a call that
\* read the count before another call's increment writes the same value.
IncrementLost(c, k) ==
    /\ mgr = "users" /\ Free(c) /\ k \in DOMAIN cache
    /\ cache[k].messages_count < MaxCount
    /\ ops' = ops + 1
    /\ cache' = [cache EXCEPT ![k].messages_count =
                     IF @ = 0 THEN 1 ELSE @]
    /\ dirty' = dirty \cup {k}
    /\ TouchEdit(k)
    /\ removed' = removed \ {k}
    /\ UNCHANGED <<closeVars, mgr, store, nextId, pc, arg, syncPc, payloads, toUpdate, toCreate, syncExit>>

\* increment_messages_count (users.py 294-301)
IncrementMessagesCount(c, k) ==
    /\ mgr = "users"
    /\ Free(c)
    /\ k \in DOMAIN cache
    /\ cache[k].messages_count < MaxCount
    /\ ops' = ops + 1
    /\ cache' = [cache EXCEPT ![k].messages_count = @ + 1]
    /\ dirty' = dirty \cup {k}
    /\ TouchEdit(k)
    /\ removed' = removed \ {k}
    /\ UNCHANGED <<closeVars, mgr, store, nextId, pc, arg, syncPc, payloads,
                   toUpdate,
                   toCreate, syncExit>>

\* increment_messages_count on a key that is not cached (users.py 296-298):
\* the call returns False
IncrementUncached(c, k) ==
    /\ mgr = "users" /\ Free(c) /\ k \notin DOMAIN cache
    /\ ops' = ops + 1
    /\ UNCHANGED <<closeVars, mgr, cache, dirty, store, nextId, pc, arg, syncPc, payloads, toUpdate, toCreate, win, kept, removed, syncExit>>

----------------------------------------------------------------------------
(* UserCache / ChatCache: sync(). *)

\* a faulty early return, which never returns early: C11 must not survive it
NeverNothingToSync(d, snap) == FALSE

\* `if not self._dirty: return` and `if not payloads: return`
\* (users.py 197-198, 206-207; mute.py 141-142)
NothingToSync(d, snap) == d = {} \/ DOMAIN snap = {}

\* first locked section (users.py 196-207): snapshot of the dirty records
SyncSnapshot ==
    /\ mgr \in RowManagers
    /\ syncPc = "idle"
    /\ LET snap == [k \in dirty \cap DOMAIN cache |-> cache[k]]
       IN IF NothingToSync(dirty, snap)
          THEN /\ syncExit' = "returned"
               /\ UNCHANGED <<syncPc, payloads, win>>
          ELSE /\ payloads' = snap
               /\ syncPc' = "probe"
               /\ syncExit' = "returned"
               /\ win' = [k \in Keys |->
                            IF k \in InFlight THEN "touched" ELSE "clean"]
    /\ UNCHANGED <<closeVars, mgr, cache, dirty, store, nextId, pc, arg,
                   toUpdate,
                   toCreate, ops, kept, removed>>

\* the row object of an existing row after the field comparison loop
\* (users.py 222-241): every compared column carries the cached value
RowWith(row, cached) ==
    [f \in DOMAIN row |-> IF f \in SyncFields(mgr) THEN cached[f] ELSE row[f]]

\* to_update (users.py 218-243): existing rows with a differing column
ToUpdate(S, snap) ==
    {RowWith(r, snap[r[KeyField(mgr)]]) :
        r \in {x \in S : /\ x[KeyField(mgr)] \in DOMAIN snap
                         /\ \E f \in SyncFields(mgr) :
                               x[f] # snap[x[KeyField(mgr)]][f]}}

\* to_create (users.py 244-258): one new object per key without a row; the
\* constructor is given the business key and CreateFields
ToCreate(S, snap) ==
    {[f \in CreateFields(mgr) \cup {KeyField(mgr)} |-> snap[k][f]] :
        k \in {x \in DOMAIN snap : RowsOf(S, x) = {}}}

\* Model.filter(key__in=...) answers; the loop builds to_update / to_create
SyncProbe ==
    /\ mgr \in RowManagers
    /\ syncPc = "probe"
    /\ toUpdate' = ToUpdate(store, payloads)
    /\ toCreate' = ToCreate(store, payloads)
    /\ syncPc' = IF mgr = "user_roles" THEN "write"
                 ELSE IF toUpdate' # {} THEN "update"
                 ELSE IF toCreate' # {} THEN "create" ELSE "final"
    /\ UNCHANGED <<closeVars, mgr, cache, dirty, store, nextId, pc, arg,
                   payloads, win,
                   syncExit, ops, kept, removed>>

\* Model.bulk_update(rows, fields): UPDATE ... WHERE id = row.id
BulkUpdate(S, rows) ==
    {IF \E u \in rows : u.id = r.id
     THEN RowWith(r, CHOOSE u \in rows : u.id = r.id)
     ELSE r : r \in S}

SyncUpdate ==
    /\ mgr \in UCManagers
    /\ syncPc = "update"
    /\ store' = BulkUpdate(store, toUpdate)
    /\ syncPc' = IF toCreate # {} THEN "create" ELSE "final"
    /\ UNCHANGED <<closeVars, mgr, cache, dirty, nextId, pc, arg, payloads,
                   toUpdate,
                   toCreate, win, syncExit, ops, kept, removed>>

\* the objects of to_create in the order bulk_create numbers them
RECURSIVE Inserted(_, _, _)
Inserted(S, n, objs) ==
    IF objs = {} THEN S
    ELSE LET o == CHOOSE x \in objs :
                     \A y \in objs : x[KeyField(mgr)] <= y[KeyField(mgr)]
         IN Inserted(S \cup {NewRow(mgr, n, o[KeyField(mgr)], o)}, n + 1,
                     objs \ {o})

\* the unique index on the business key rejects the insert
UniqueViolation(S, objs) ==
    \E o \in objs : RowsOf(S, o[KeyField(mgr)]) # {}

SyncCreate ==
    /\ mgr \in UCManagers
    /\ syncPc = "create"
    /\ ~UniqueViolation(store, toCreate)
    /\ nextId + Cardinality(toCreate) <= MaxId + 1
    /\ store' = Inserted(store, nextId, toCreate)
    /\ nextId' = nextId + Cardinality(toCreate)
    /\ syncPc' = "final"
    /\ UNCHANGED <<closeVars, mgr, cache, dirty, pc, arg, payloads, toUpdate,
                   toCreate,
                   win, syncExit, ops, kept, removed>>

\* one key of the last locked section (users.py 286-292)
StillDirty(d, c, snap, k) ==
    IF k \notin DOMAIN c THEN FALSE
    ELSE IF \A f \in RecheckFields(mgr) : c[k][f] = snap[k][f] THEN FALSE
    ELSE k \in d

\* last locked section (users.py 285-292)
SyncFinal ==
    /\ mgr \in RowManagers
    /\ syncPc = "final"
    /\ dirty' = {k \in dirty :
                    k \in DOMAIN payloads => StillDirty(dirty, cache, payloads, k)}
    /\ syncPc' = "idle"
    /\ syncExit' = "returned"
    /\ payloads' = NoFields
    /\ toUpdate' = {}
    /\ toCreate' = {}
    /\ win' = [k \in Keys |-> "clean"]
    /\ kept' = {k \in DOMAIN payloads : win[k] = "edited" /\ k \in dirty'}
    /\ UNCHANGED <<closeVars, mgr, cache, store, nextId, pc, arg, ops,
                   removed>>

\* how an exception raised by a store call leaves sync(): "caught" when the
\* call sits inside try/except Exception (users.py 210, 279-283), "raised"
\* when sync() has no handler (cluster_setting.py 90-106, clusters.py 136-179)
OnStoreError(m) ==
    IF m \in {"cluster_settings", "clusters"} THEN "raised" ELSE "caught"

\* a store call of sync() raises (the uniqueness violation included)
SyncFails ==
    /\ mgr \in CacheManagers
    /\ syncPc \in {"probe", "update", "create", "write"}
    /\ syncPc' = "idle"
    /\ syncExit' = OnStoreError(mgr)
    /\ payloads' = NoFields
    /\ toUpdate' = {}
    /\ toCreate' = {}
    /\ win' = [k \in Keys |-> "clean"]
    /\ kept' = {k \in DOMAIN payloads : win[k] = "edited" /\ k \in dirty}
    /\ UNCHANGED <<closeVars, mgr, cache, dirty, store, nextId, pc, arg, ops,
                   removed>>

----------------------------------------------------------------------------
(* UserRoleCache: add_role and the write of sync().  _ensure_cached's store
   call, remove_role and the other sections of sync() are the actions
   EnsureIO, RemoveStart, RemoveIO, SyncSnapshot, SyncProbe and SyncFinal. *)

\* add_role, its first locked section (user_roles.py 193-197):
\* <<cache after, TRUE when the level was changed>>
AddRoleLocked(c0, k, level) ==
    IF c0[k].level = level THEN <<c0, FALSE>>
    ELSE <<[c0 EXCEPT ![k].level = level], TRUE>>

\* the arguments of one add_role call; assigned_by_tg 0 is None
AddRoleArgs ==
    {[level |-> l, assigned_by_id |-> 0, assigned_by_tg |-> b] :
        l \in Vals, b \in {0, 1}}

\* add_role on a cached key (user_roles.py 189-198)
AddRoleCached(c, k, a) ==
    /\ mgr = "user_roles"
    /\ Free(c)
    /\ k \in DOMAIN cache
    /\ ops' = ops + 1
    /\ cache' = AddRoleLocked(cache, k, a.level)[1]
    /\ IF AddRoleLocked(cache, k, a.level)[2] /\ a.assigned_by_tg # 0
       THEN /\ pc' = [pc EXCEPT ![c] = "assign_io"]
            /\ arg' = [arg EXCEPT ![c] =
                          [op |-> "add_role", key |-> k, fields |-> a,
                           model |-> {}, raced |-> FALSE, detached |-> FALSE]]
            /\ Touch(k)
       ELSE /\ UNCHANGED <<pc, arg>>
            /\ TouchEdit(k)
    /\ removed' = removed \ {k}
    /\ UNCHANGED <<closeVars, mgr, dirty, store, nextId, syncPc, payloads,
                   toUpdate, toCreate, syncExit>>

\* add_role on a key not in the cache: _ensure_cached goes to the store with
\* {"level": level, "assigned_by_id": None} (user_roles.py 189-191, 125-131)
AddRoleStart(c, k, a) ==
    /\ mgr = "user_roles"
    /\ Free(c)
    /\ k \notin DOMAIN cache
    /\ ops' = ops + 1
    /\ pc' = [pc EXCEPT ![c] = "ensure_io"]
    /\ arg' = [Mark(arg, k, {"remove"}) EXCEPT ![c] =
                  [op |-> "add_role", key |-> k, fields |-> a, model |-> {},
                   raced |-> FALSE, detached |-> FALSE]]
    /\ Touch(k)
    /\ removed' = removed \ {k}
    /\ UNCHANGED <<closeVars, mgr, cache, dirty, store, nextId, syncPc,
                   payloads, toUpdate, toCreate, syncExit>>

\* _ensure_cached, second locked section (user_roles.py 143-154), followed
\* without a suspension by add_role's first locked section
AddRoleCommit(c) ==
    /\ mgr = "user_roles"
    /\ pc[c] = "ensure_commit"
    /\ LET k == arg[c].key
           model == CHOOSE r \in arg[c].model : TRUE
           inserted == Put(cache, k, CachedFrom(model))
           locked == AddRoleLocked(inserted, k, arg[c].fields.level)
       IN /\ cache' = locked[1]
          /\ IF locked[2] /\ arg[c].fields.assigned_by_tg # 0
             THEN /\ pc' = [pc EXCEPT ![c] = "assign_io"]
                  /\ arg' = Detach(arg, k)
             ELSE /\ pc' = [pc EXCEPT ![c] = "idle"]
                  /\ arg' = [Detach(arg, k) EXCEPT ![c] = NoArg]
          /\ Touch(k)
    /\ UNCHANGED <<closeVars, mgr, dirty, store, nextId, syncPc, payloads,
                   toUpdate, toCreate, syncExit, ops, removed>>

\* repo.ensure_user(assigned_by_tg) answers and add_role's second locked
\* section runs on the record object r (user_roles.py 198-203)
AddRoleAssign(c) ==
    /\ mgr = "user_roles"
    /\ pc[c] = "assign_io"
    /\ LET k == arg[c].key
       IN /\ cache' = IF arg[c].detached \/ k \notin DOMAIN cache THEN cache
                      ELSE [cache EXCEPT ![k].assigned_by_id =
                                            arg[c].fields.assigned_by_tg]
          /\ dirty' = dirty \cup {k}
          /\ Touch(k)
    /\ pc' = [pc EXCEPT ![c] = "idle"]
    /\ arg' = [arg EXCEPT ![c] = NoArg]
    /\ UNCHANGED <<closeVars, mgr, store, nextId, syncPc, payloads, toUpdate,
                   toCreate, syncExit, ops, removed>>

\* async with in_transaction(): bulk_update, bulk_create
\* (user_roles.py 293-301); the transaction commits both or neither
RoleSyncWrite ==
    /\ mgr = "user_roles"
    /\ syncPc = "write"
    /\ ~UniqueViolation(store, toCreate)
    /\ nextId + Cardinality(toCreate) <= MaxId + 1
    /\ store' = Inserted(BulkUpdate(store, toUpdate), nextId, toCreate)
    /\ nextId' = nextId + Cardinality(toCreate)
    /\ syncPc' = "final"
    /\ UNCHANGED <<closeVars, mgr, cache, dirty, pc, arg, payloads, toUpdate,
                   toCreate, win, kept, removed, syncExit, ops>>

----------------------------------------------------------------------------
(* MuteCache, ChatSettingCache, InviteLinkCache, ClusterSettingCache: the
   writes to a cached key and sync().  In these behaviours the rows are
   loaded by initialize() or created by set() or add_mute(); rows are deleted
   by remove_mute() and with their users row. *)

\* add_mute on a cached key (mute.py 89-97)
AddMuteCached(c, k, fields) ==
    /\ mgr = "mutes"
    /\ Free(c)
    /\ k \in DOMAIN cache
    /\ ops' = ops + 1
    /\ cache' = Put(cache, k, Merge(cache[k], fields))
    /\ dirty' = dirty \cup {k}
    /\ TouchEdit(k)
    /\ UNCHANGED <<closeVars, mgr, store, nextId, pc, arg, syncPc, payloads,
                   toUpdate, toCreate, removed, syncExit>>

\* add_mute on an uncached key, its first locked section (mute.py 89-91):
\* the key is not found and the lock is released
AddMuteStart(c, k, fields) ==
    /\ mgr = "mutes"
    /\ Free(c)
    /\ k \notin DOMAIN cache
    /\ ops' = ops + 1
    /\ pc' = [pc EXCEPT ![c] = "mute_io"]
    /\ arg' = [arg EXCEPT ![c] = [NoArg EXCEPT !.op = "add_mute", !.key = k,
                                               !.fields = fields]]
    /\ Touch(k)
    /\ UNCHANGED <<closeVars, mgr, cache, dirty, store, nextId, syncPc,
                   payloads, toUpdate, toCreate, removed, syncExit>>

\* MuteRepository.ensure_record (mute.py 38-51, 99): User.get_or_create and
\* Chat.get_or_create make sure of the parent rows, then
\* Mute.get_or_create(user_id, chat_id, defaults=fields)
AddMuteIO(c) ==
    /\ mgr = "mutes"
    /\ pc[c] = "mute_io"
    /\ LET k == arg[c].key
           r == GetOrCreate(store, nextId, k, arg[c].fields)
       IN /\ (RowsOf(store, k) = {} => nextId <= MaxId)
          /\ store' = r[1]
          /\ nextId' = r[2]
          /\ arg' = [arg EXCEPT ![c].model = {r[3]}]
          /\ removed' = removed \ {k}
          /\ Touch(k)
    /\ pc' = [pc EXCEPT ![c] = "mute_commit"]
    /\ UNCHANGED <<closeVars, mgr, cache, dirty, syncPc, payloads, toUpdate,
                   toCreate, syncExit, ops>>

\* add_mute, its second locked section (mute.py 100-111): the record built
\* from the model is put under the key; the dirty set is not touched
AddMuteCommit(c) ==
    /\ mgr = "mutes"
    /\ pc[c] = "mute_commit"
    /\ cache' = Put(cache, arg[c].key,
                    CachedFrom(CHOOSE r \in arg[c].model : TRUE))
    /\ pc' = [pc EXCEPT ![c] = "idle"]
    /\ arg' = [arg EXCEPT ![c] = NoArg]
    /\ Touch(arg[c].key)
    /\ UNCHANGED <<closeVars, mgr, dirty, store, nextId, syncPc, payloads,
                   toUpdate, toCreate, removed, syncExit, ops>>

\* remove_mute, its locked section (mute.py 114-118): discard and pop,
\* whether or not the key is cached
RemoveMuteStart(c, k) ==
    /\ mgr = "mutes"
    /\ Free(c)
    /\ ops' = ops + 1
    /\ cache' = IF k \in DOMAIN cache THEN Evict(cache, k) ELSE cache
    /\ dirty' = dirty \ {k}
    /\ pc' = [pc EXCEPT ![c] = "unmute_io"]
    /\ arg' = [arg EXCEPT ![c] =
                  [op |-> "remove_mute", key |-> k, fields |-> NoFields,
                   model |-> {}, raced |-> FALSE, detached |-> FALSE]]
    /\ Touch(k)
    /\ UNCHANGED <<closeVars, mgr, store, nextId, syncPc, payloads, toUpdate,
                   toCreate, removed, syncExit>>

\* repo.delete_record executes in the store (mute.py 53-57, 119)
RemoveMuteIO(c) ==
    /\ mgr = "mutes"
    /\ pc[c] = "unmute_io"
    /\ store' = DeleteRecord(store, arg[c].key)
    /\ pc' = [pc EXCEPT ![c] = "idle"]
    /\ arg' = [arg EXCEPT ![c] = NoArg]
    /\ Touch(arg[c].key)
    /\ UNCHANGED <<closeVars, mgr, cache, dirty, nextId, syncPc, payloads,
                   toUpdate, toCreate, removed, syncExit, ops>>

\* a faulty remove_mute, which rolls the eviction back when the delete
\* raises: C14 must not survive it
RemoveMuteRestores(c) ==
    /\ mgr = "mutes"
    /\ pc[c] = "unmute_io"
    /\ pc' = [pc EXCEPT ![c] = "idle"]
    /\ arg' = [arg EXCEPT ![c] = NoArg]
    /\ cache' = Initialize(RowsOf(store, arg[c].key)) @@ cache
    /\ Touch(arg[c].key)
    /\ UNCHANGED <<closeVars, mgr, dirty, store, nextId, syncPc, payloads,
                   toUpdate, toCreate, removed, syncExit, ops>>

\* the delete raises: the exception leaves remove_mute
RemoveMuteIOFails(c) ==
    /\ mgr = "mutes"
    /\ pc[c] = "unmute_io"
    /\ pc' = [pc EXCEPT ![c] = "idle"]
    /\ arg' = [arg EXCEPT ![c] = NoArg]
    /\ Touch(arg[c].key)
    /\ UNCHANGED <<closeVars, mgr, cache, dirty, store, nextId, syncPc,
                   payloads, toUpdate, toCreate, removed, syncExit, ops>>

\* ChatSettingCache.set on a cached key (chat_setting.py 67-73)
SetCached(c, k, v) ==
    /\ mgr = "chat_settings"
    /\ Free(c)
    /\ k \in DOMAIN cache
    /\ ops' = ops + 1
    /\ cache' = [cache EXCEPT ![k].value = v]
    /\ dirty' = dirty \cup {k}
    /\ TouchEdit(k)
    /\ UNCHANGED <<closeVars, mgr, store, nextId, pc, arg, syncPc, payloads,
                   toUpdate, toCreate, removed, syncExit>>

\* the tokens increment_usage and is_valid are called with: the token of
\* the table's row and one that no row carries
Tokens == Keys \cup {2}

\* a faulty increment_usage, which deactivates the invite one use late: C18
\* must not survive it
IncrementDeactivatesLate(c0, d0, k) ==
    IF k \notin DOMAIN c0
    THEN <<c0, d0, FALSE>>
    ELSE <<[c0 EXCEPT
               ![k].used_count = @ + 1,
               ![k].is_active = IF c0[k].used_count + 1 > c0[k].max_uses
                                THEN 0 ELSE @],
           d0 \cup {k}, TRUE>>

\* increment_usage under the lock (invite_links.py 161-170):
\* <<cache after, dirty set after, the value returned>>
IncrementUsageLocked(c0, d0, k) ==
    IF k \notin DOMAIN c0
    THEN <<c0, d0, FALSE>>
    ELSE <<[c0 EXCEPT
               ![k].used_count = @ + 1,
               ![k].is_active = IF c0[k].used_count + 1 >= c0[k].max_uses
                                THEN 0 ELSE @],
           d0 \cup {k}, TRUE>>

\* increment_usage (invite_links.py 161-170)
IncrementUsage(c, k) ==
    /\ mgr = "invite_links"
    /\ Free(c)
    /\ k \in DOMAIN cache => cache[k].used_count < MaxUsed
    /\ ops' = ops + 1
    /\ cache' = IncrementUsageLocked(cache, dirty, k)[1]
    /\ dirty' = IncrementUsageLocked(cache, dirty, k)[2]
    /\ IF k \in DOMAIN cache THEN TouchEdit(k) ELSE UNCHANGED <<win, kept>>
    /\ UNCHANGED <<closeVars, mgr, store, nextId, pc, arg, syncPc, payloads,
                   toUpdate, toCreate, removed, syncExit>>

\* is_valid (invite_links.py 178-189) of an invite without expiry
IsValid(c0, k) ==
    IF k \notin DOMAIN c0 THEN FALSE
    ELSE IF c0[k].is_active = 0 THEN FALSE
    ELSE IF c0[k].used_count >= c0[k].max_uses THEN FALSE
    ELSE TRUE

\* ClusterSettingCache.set starts: it always goes to the store first
\* (cluster_setting.py 61-62)
SetStart(c, k, v) ==
    /\ mgr = "cluster_settings"
    /\ Free(c)
    /\ ops' = ops + 1
    /\ pc' = [pc EXCEPT ![c] = "set_io"]
    /\ arg' = [arg EXCEPT ![c] =
                  [op |-> "set", key |-> k, fields |-> [value |-> v],
                   model |-> {}, raced |-> FALSE, detached |-> FALSE]]
    /\ Touch(k)
    /\ UNCHANGED <<closeVars, mgr, cache, dirty, store, nextId, syncPc,
                   payloads, toUpdate, toCreate, removed, syncExit>>

\* ClusterSetting.get_or_create executes (cluster_setting.py 25-31)
SetIO(c) ==
    /\ mgr = "cluster_settings"
    /\ pc[c] = "set_io"
    /\ LET k == arg[c].key
           r == GetOrCreate(store, nextId, k, arg[c].fields)
       IN /\ (RowsOf(store, k) = {} => nextId <= MaxId)
          /\ store' = r[1]
          /\ nextId' = r[2]
          /\ arg' = [arg EXCEPT ![c].model = {r[3]}]
          /\ pc' = [pc EXCEPT ![c] = "set_commit"]
          /\ Touch(k)
    /\ UNCHANGED <<closeVars, mgr, cache, dirty, syncPc, payloads, toUpdate,
                   toCreate, removed, syncExit, ops>>

\* ClusterSettingCache.set, its locked section (cluster_setting.py 63-71):
\* the record carries the row's id and the value passed to set
SetCommit(c) ==
    /\ mgr = "cluster_settings"
    /\ pc[c] = "set_commit"
    /\ LET k == arg[c].key
           model == CHOOSE r \in arg[c].model : TRUE
       IN /\ cache' = Put(cache, k, Merge(CachedFrom(model), arg[c].fields))
          /\ dirty' = dirty \cup {k}
          /\ Touch(k)
    /\ pc' = [pc EXCEPT ![c] = "idle"]
    /\ arg' = [arg EXCEPT ![c] = NoArg]
    /\ UNCHANGED <<closeVars, mgr, store, nextId, syncPc, payloads, toUpdate,
                   toCreate, removed, syncExit, ops>>

\* first locked section: dirty_snapshot and payloads (mute.py 134-142,
\* chat_setting.py 103-107, invite_links.py 192-203, cluster_setting.py 91-95)
ClrSyncSnapshot ==
    /\ mgr \in ClrManagers
    /\ syncPc = "idle"
    /\ LET snap == [k \in dirty \cap DOMAIN cache |-> cache[k]]
       IN IF NothingToSync(dirty, snap)
          THEN /\ syncExit' = "returned"
               /\ UNCHANGED <<syncPc, payloads, win>>
          ELSE /\ payloads' = snap
               /\ syncPc' = "write"
               /\ syncExit' = "returned"
               /\ win' = [k \in Keys |->
                            IF k \in InFlight THEN "touched" ELSE "clean"]
    /\ UNCHANGED <<closeVars, mgr, cache, dirty, store, nextId, pc, arg,
                   toUpdate, toCreate, kept, removed, ops>>

\* the transaction of sync(): update_or_create per payload (mute.py 152-172,
\* chat_setting.py 114-123, cluster_setting.py 98-104) or bulk_update and
\* bulk_create (invite_links.py 255-262)
Upsert(S, n, snap) ==
    Inserted(BulkUpdate(S, ToUpdate(S, snap)), n, ToCreate(S, snap))

\* the payloads whose parent rows sync() finds: MuteCache.sync looks the
\* users and chats rows up and skips a payload without them
\* (mute.py 144-157); under mgr = "mutes" removed holds the keys whose users
\* row is absent
WithParent(snap) ==
    [k \in DOMAIN snap \ (IF mgr = "mutes" THEN removed ELSE {}) |-> snap[k]]

ClrSyncWrite ==
    /\ mgr \in ClrManagers
    /\ syncPc = "write"
    /\ LET snap == WithParent(payloads)
       IN /\ nextId + Cardinality(ToCreate(store, snap)) <= MaxId + 1
          /\ store' = Upsert(store, nextId, snap)
          /\ nextId' = nextId + Cardinality(ToCreate(store, snap))
          /\ toUpdate' = DOMAIN snap
    /\ syncPc' = "final"
    /\ UNCHANGED <<closeVars, mgr, cache, dirty, pc, arg, payloads,
                   toCreate, win, kept, removed, syncExit, ops>>

\* last locked section: self._dirty -= dirty_snapshot (mute.py 179-180,
\* chat_setting.py 129-130, cluster_setting.py 105-106); InviteLinkCache
\* discards every payload token (invite_links.py 265-267)
ClrSyncFinal ==
    /\ mgr \in ClrManagers
    /\ syncPc = "final"
    /\ dirty' = dirty \ DOMAIN payloads
    /\ syncPc' = "idle"
    /\ syncExit' = "returned"
    /\ payloads' = NoFields
    /\ toUpdate' = {}
    /\ win' = [k \in Keys |-> "clean"]
    /\ kept' = {k \in DOMAIN payloads : win[k] = "edited" /\ k \in dirty'}
    /\ UNCHANGED <<closeVars, mgr, cache, store, nextId, pc, arg, toCreate,
                   removed, ops>>

\* UserRepository.delete_record_by_tg deletes the users row of a muted user
\* (users.py 85-86); Mute.user is on_delete=CASCADE (models.py 168-170), so
\* the mutes rows of the user go with it.  The MuteCache is not told.
ParentDeleted(k) ==
    /\ mgr = "mutes"
    /\ ops < MaxOps
    /\ k \notin removed
    /\ ops' = ops + 1
    /\ removed' = removed \cup {k}
    /\ store' = store \ RowsOf(store, k)
    /\ UNCHANGED <<closeVars, cache, dirty, nextId, pc, arg, syncPc, payloads,
                   toUpdate, toCreate, win, kept, syncExit, mgr>>

\* User.get_or_create(tg_user_id=...) of any ensure creates the users row
\* again (users.py 66-78)
ParentCreated(k) ==
    /\ mgr = "mutes"
    /\ ops < MaxOps
    /\ k \in removed
    /\ ops' = ops + 1
    /\ removed' = removed \ {k}
    /\ UNCHANGED <<closeVars, cache, dirty, store, nextId, pc, arg, syncPc,
                   payloads, toUpdate, toCreate, win, kept, syncExit, mgr>>

----------------------------------------------------------------------------
(* InviteUsageCache.add_usage (invite_usage.py).  Under mgr = "invite_usage"
   the key stands for one (invite_token, tg_user_id) pair and the store holds
   the invite_usages rows.  The invite_links table belongs to another
   manager: whether ensure_record finds the token is the choice between
   AddUsageIO and AddUsageIOFails. *)

\* add_usage on a cached key (invite_usage.py 95-101)
AddUsageCached(c, k, t) ==
    /\ mgr = "invite_usage"
    /\ Free(c)
    /\ k \in DOMAIN cache
    /\ ops' = ops + 1
    /\ cache' = Put(cache, k, Merge(cache[k], [used_at |-> t]))
    /\ dirty' = dirty \cup {k}
    /\ TouchEdit(k)
    /\ UNCHANGED <<closeVars, mgr, store, nextId, pc, arg, syncPc, payloads,
                   toUpdate, toCreate, removed, syncExit>>

\* add_usage on an uncached key, its first locked section (invite_usage.py
\* 95-97): the key is not found and the lock is released
AddUsageStart(c, k, t) ==
    /\ mgr = "invite_usage"
    /\ Free(c)
    /\ k \notin DOMAIN cache
    /\ ops' = ops + 1
    /\ pc' = [pc EXCEPT ![c] = "usage_io"]
    /\ arg' = [arg EXCEPT ![c] =
                  [op |-> "add_usage", key |-> k, fields |-> [used_at |-> t],
                   model |-> {}, raced |-> FALSE, detached |-> FALSE]]
    /\ Touch(k)
    /\ UNCHANGED <<closeVars, mgr, cache, dirty, store, nextId, syncPc,
                   payloads, toUpdate, toCreate, removed, syncExit>>

\* InviteUsageRepository.ensure_record finds the invite and runs
\* InviteUsage.get_or_create (invite_usage.py 29-45, 103)
AddUsageIO(c) ==
    /\ mgr = "invite_usage"
    /\ pc[c] = "usage_io"
    /\ LET k == arg[c].key
           r == GetOrCreate(store, nextId, k, arg[c].fields)
       IN /\ (RowsOf(store, k) = {} => nextId <= MaxId)
          /\ store' = r[1]
          /\ nextId' = r[2]
          /\ arg' = [arg EXCEPT ![c].model = {r[3]}]
          /\ pc' = [pc EXCEPT ![c] = "usage_commit"]
          /\ Touch(k)
    /\ UNCHANGED <<closeVars, mgr, cache, dirty, syncPc, payloads, toUpdate,
                   toCreate, removed, syncExit, ops>>

\* a faulty add_usage, which caches an unsaved record before the store call
\* and leaves it behind when the call raises: C13 must not survive it
AddUsageLeavesEntry(c) ==
    /\ mgr = "invite_usage"
    /\ pc[c] = "usage_io"
    /\ pc' = [pc EXCEPT ![c] = "idle"]
    /\ arg' = [arg EXCEPT ![c] = NoArg]
    /\ cache' = Put(cache, arg[c].key,
                    CachedFrom(NewRow(mgr, 0, arg[c].key, arg[c].fields)))
    /\ dirty' = dirty \cup {arg[c].key}
    /\ Touch(arg[c].key)
    /\ UNCHANGED <<closeVars, mgr, store, nextId, syncPc, payloads, toUpdate,
                   toCreate, removed, syncExit, ops>>

\* ensure_record raises, ValueError for an unknown token (invite_usage.py
\* 36-38) or an error of the store: the exception leaves add_usage at line
\* 103, before its second locked section
AddUsageIOFails(c) ==
    /\ mgr = "invite_usage"
    /\ pc[c] = "usage_io"
    /\ pc' = [pc EXCEPT ![c] = "idle"]
    /\ arg' = [arg EXCEPT ![c] = NoArg]
    /\ Touch(arg[c].key)
    /\ UNCHANGED <<closeVars, mgr, cache, dirty, store, nextId, syncPc,
                   payloads, toUpdate, toCreate, removed, syncExit, ops>>

\* add_usage, its second locked section (invite_usage.py 104-112): the
\* record carries the row's id and the row's used_at
AddUsageCommit(c) ==
    /\ mgr = "invite_usage"
    /\ pc[c] = "usage_commit"
    /\ LET k == arg[c].key
           model == CHOOSE r \in arg[c].model : TRUE
       IN /\ cache' = Put(cache, k, CachedFrom(model))
          /\ dirty' = dirty \cup {k}
          /\ Touch(k)
    /\ pc' = [pc EXCEPT ![c] = "idle"]
    /\ arg' = [arg EXCEPT ![c] = NoArg]
    /\ UNCHANGED <<closeVars, mgr, store, nextId, syncPc, payloads, toUpdate,
                   toCreate, removed, syncExit, ops>>

----------------------------------------------------------------------------
(* ClusterCache (clusters.py).  Under mgr = "clusters" the cache maps a
   cluster id to its record, of which chat_ids is followed; the store holds
   the rows of the chats table, each with its cluster_id (0: NULL).  Both
   clusters have their row and were loaded by initialize(); removed holds
   the cluster ids whose clusters row has been deleted since.  add_chat is
   the one operation that awaits the store inside `async with self._lock`:
   a coroutine at "add_chat_io" holds the lock, and every locked section of
   another coroutine waits for it. *)

ClusterIds == {1, 2}
ChatIds == {1, 2}

\* what the cluster calls leave alone
ClusterFrame == UNCHANGED <<closeVars, mgr, nextId, pc, arg, toCreate, kept,
                            removed>>

\* Chat.filter(cluster_id=cluster_id): the tg_chat_id of the rows
DbChats(S, cid) == {r.tg_chat_id : r \in {x \in S : x.cluster_id = cid}}

\* Chat.filter(tg_chat_id__in=ids).update(cluster_id=cid): the rows after
Assign(S, ids, cid) ==
    {IF r.tg_chat_id \in ids THEN [r EXCEPT !.cluster_id = cid] ELSE r : r \in S}

\* history bookkeeping of a call on cluster cid while sync() is running
TouchCluster(cid) ==
    win' = IF syncPc = "idle" THEN win ELSE [win EXCEPT ![cid] = "touched"]

\* asyncio.Lock: nobody is inside `async with self._lock`
LockFree == \A c \in Clients : pc[c] # "add_chat_io"

\* add_chat on a cached cluster (clusters.py 93-95, 107-108)
AddChat(c, cid, t) ==
    /\ mgr = "clusters"
    /\ Free(c)
    /\ LockFree
    /\ cid \in DOMAIN cache
    /\ ops' = ops + 1
    /\ cache' = [cache EXCEPT ![cid].chat_ids = @ \cup {t}]
    /\ dirty' = dirty \cup {cid}
    /\ TouchCluster(cid)
    /\ ClusterFrame
    /\ UNCHANGED <<store, syncPc, payloads, toUpdate, syncExit>>

\* remove_chat, the branch that finds the chat in chat_ids (clusters.py
\* 110-115); in the other branch the call changes nothing
RemoveChat(c, cid, t) ==
    /\ mgr = "clusters"
    /\ Free(c)
    /\ LockFree
    /\ cid \in DOMAIN cache
    /\ t \in cache[cid].chat_ids
    /\ ops' = ops + 1
    /\ cache' = [cache EXCEPT ![cid].chat_ids = @ \ {t}]
    /\ dirty' = dirty \cup {cid}
    /\ TouchCluster(cid)
    /\ ClusterFrame
    /\ UNCHANGED <<store, syncPc, payloads, toUpdate, syncExit>>

\* get(cluster_id) is `return self._cache.get(cluster_id)` (clusters.py
\* 89-91): the caller is handed the object the cache holds, not a copy
GetReturnsCachedObject == TRUE

\* a caller of get(cid) adds t to the chat_ids of the object it was handed
WriteReturned(c, cid, t) ==
    /\ mgr = "clusters"
    /\ Free(c)
    /\ cid \in DOMAIN cache
    /\ t \notin cache[cid].chat_ids
    /\ ops' = ops + 1
    /\ cache' = IF GetReturnsCachedObject
                THEN [cache EXCEPT ![cid].chat_ids = @ \cup {t}]
                ELSE cache
    /\ TouchCluster(cid)
    /\ ClusterFrame
    /\ UNCHANGED <<dirty, store, syncPc, payloads, toUpdate, syncExit>>

\* a faulty list accessor, which copies the records but not their nested
\* collections (copy.copy): C23 must not survive it
ShallowCopyShares == {"chat_ids"}

\* copy.deepcopy(c) (clusters.py 199-201, user_roles.py 216-226, mute.py
\* 121-131): the parts of the cached record that the object handed out
\* shares with it
DeepCopyShares == {}

\* a caller of get_all_clusters adds t to the chat_ids of a listed object;
\* arg[c].op of the idle coroutine records that it did
WriteListed(c, cid, t) ==
    /\ mgr = "clusters"
    /\ Free(c)
    /\ cid \in DOMAIN cache
    /\ t \notin cache[cid].chat_ids
    /\ ops' = ops + 1
    /\ cache' = IF "chat_ids" \in DeepCopyShares
                THEN [cache EXCEPT ![cid].chat_ids = @ \cup {t}]
                ELSE cache
    /\ arg' = [arg EXCEPT ![c] = [NoArg EXCEPT !.op = "wrote_listed"]]
    /\ TouchCluster(cid)
    /\ UNCHANGED <<closeVars, mgr, nextId, pc, toCreate, kept, removed, dirty,
                   store, syncPc, payloads, toUpdate, syncExit>>

\* a caller of get_user_roles / get_chat_roles or get_user_mutes /
\* get_chat_mutes assigns a field of a listed record
WriteListedRecord(c, k, fields) ==
    /\ mgr \in {"user_roles", "mutes"}
    /\ Free(c)
    /\ k \in DOMAIN cache
    /\ ops' = ops + 1
    /\ cache' = IF "record" \in DeepCopyShares
                THEN Put(cache, k, Merge(cache[k], fields))
                ELSE cache
    /\ UNCHANGED <<closeVars, mgr, nextId, pc, arg, toCreate, kept, removed,
                   dirty, store, syncPc, payloads, toUpdate, syncExit, win>>

\* add_chat on an uncached cluster (clusters.py 93-96): the lock is taken,
\* the cluster is not found in the cache and repo.get_record is awaited
\* inside the locked section
AddChatUncached(c, cid, t) ==
    /\ mgr = "clusters"
    /\ Free(c)
    /\ LockFree
    /\ cid \notin DOMAIN cache
    /\ ops' = ops + 1
    /\ pc' = [pc EXCEPT ![c] = "add_chat_io"]
    /\ arg' = [arg EXCEPT ![c] = [NoArg EXCEPT !.op = "add_chat", !.key = cid,
                                               !.fields = [chat |-> t]]]
    /\ TouchCluster(cid)
    /\ UNCHANGED <<closeVars, mgr, nextId, toCreate, kept, removed, cache,
                   dirty, store, syncPc, payloads, toUpdate, syncExit>>

\* Cluster.filter(id=cluster_id).first() answers (clusters.py 96-108): no
\* row and add_chat returns, or the record is cached with chat_ids=set(),
\* the chat added and the key marked dirty; the lock is released
AddChatLoaded(c) ==
    /\ mgr = "clusters"
    /\ pc[c] = "add_chat_io"
    /\ LET cid == arg[c].key
       IN IF cid \in removed
          THEN UNCHANGED <<cache, dirty>>
          ELSE /\ cache' = Put(cache, cid,
                               [id |-> cid, chat_ids |-> {arg[c].fields.chat}])
               /\ dirty' = dirty \cup {cid}
    /\ pc' = [pc EXCEPT ![c] = "idle"]
    /\ arg' = [arg EXCEPT ![c] = NoArg]
    /\ UNCHANGED <<closeVars, mgr, nextId, toCreate, kept, removed, store,
                   syncPc, payloads, toUpdate, syncExit, win, ops>>

\* remove_cluster, its first statement (clusters.py 130-131):
\* Cluster.filter(id=cluster_id).delete() (61-62); Chat.cluster is
\* on_delete=CASCADE (models.py 30-32), so the chats rows of the cluster go
\* with the clusters row
RemoveClusterIO(c, cid) ==
    /\ mgr = "clusters"
    /\ Free(c)
    /\ ops' = ops + 1
    /\ removed' = removed \cup {cid}
    /\ store' = {r \in store : r.cluster_id # cid}
    /\ pc' = [pc EXCEPT ![c] = "uncluster_evict"]
    /\ arg' = [arg EXCEPT ![c] = [NoArg EXCEPT !.op = "remove_cluster",
                                               !.key = cid]]
    /\ TouchCluster(cid)
    /\ UNCHANGED <<closeVars, mgr, nextId, toCreate, kept, cache, dirty,
                   syncPc, payloads, toUpdate, syncExit>>

\* remove_cluster's locked section (clusters.py 132-134): the key is popped
\* from the cache and discarded from the dirty set
RemoveClusterEvict(c) ==
    /\ mgr = "clusters"
    /\ pc[c] = "uncluster_evict"
    /\ LockFree
    /\ cache' = [k \in DOMAIN cache \ {arg[c].key} |-> cache[k]]
    /\ dirty' = dirty \ {arg[c].key}
    /\ pc' = [pc EXCEPT ![c] = "idle"]
    /\ arg' = [arg EXCEPT ![c] = NoArg]
    /\ UNCHANGED <<closeVars, mgr, nextId, toCreate, kept, removed, store,
                   syncPc, payloads, toUpdate, syncExit, win, ops>>

\* a chat row is created by its own manager, with no cluster
\* (chats.py 59-70, DEFAULT_CHAT 43-51)
ChatCreated(c, t) ==
    /\ mgr = "clusters"
    /\ Free(c)
    /\ \A r \in store : r.tg_chat_id # t
    /\ ops' = ops + 1
    /\ store' = store \cup {[tg_chat_id |-> t, cluster_id |-> 0]}
    /\ ClusterFrame
    /\ UNCHANGED <<cache, dirty, win, syncPc, payloads, toUpdate, syncExit>>

\* first locked section of sync() (clusters.py 137-145)
ClusterSyncSnapshot ==
    /\ mgr = "clusters"
    /\ LockFree
    /\ syncPc = "idle"
    /\ IF dirty = {}
       THEN /\ syncExit' = "returned"
            /\ UNCHANGED <<syncPc, payloads, win>>
       ELSE /\ payloads' = [cid \in dirty \cap DOMAIN cache |-> cache[cid]]
            /\ syncPc' = "write"
            /\ syncExit' = "returned"
            /\ win' = [cid \in ClusterIds |-> "clean"]
    /\ ClusterFrame
    /\ UNCHANGED <<cache, dirty, store, toUpdate, ops>>

\* the orders in which `for cluster_id, cached in cache_snapshot.items()` may
\* visit the snapshot: the dict is filled in the iteration order of a set
Orders(D) ==
    {o \in [1..Cardinality(D) -> D] : \A i, j \in DOMAIN o : o[i] = o[j] => i = j}

\* the loop of the transaction (clusters.py 149-176) over the clusters of
\* order: <<the chats table after, succeeded_clusters>>
RECURSIVE Reconcile(_, _, _, _)
Reconcile(S, succeeded, order, snap) ==
    IF order = <<>> THEN <<S, succeeded>>
    ELSE LET cid == Head(order)
             db == DbChats(S, cid)
             toAdd == snap[cid].chat_ids \ db
             toRemove == db \ snap[cid].chat_ids
             addUpdated == Cardinality({r \in S : r.tg_chat_id \in toAdd})
             S1 == Assign(Assign(S, toAdd, cid), toRemove, 0)
         IN Reconcile(S1,
                      IF toAdd = {} \/ addUpdated >= Cardinality(toAdd)
                      THEN succeeded \cup {cid} ELSE succeeded,
                      Tail(order), snap)

\* an UPDATE of the transaction would set cluster_id to a cluster without a
\* row (clusters.py 157-163): the foreign key rejects it
FkViolation(S, snap) ==
    \E cid \in DOMAIN snap \cap removed :
        \E r \in S : r.tg_chat_id \in snap[cid].chat_ids

\* the transaction of sync() commits (clusters.py 147-176)
ClusterSyncWrite ==
    /\ mgr = "clusters"
    /\ syncPc = "write"
    /\ ~FkViolation(store, payloads)
    /\ \E order \in Orders(DOMAIN payloads) :
          /\ store' = Reconcile(store, {}, order, payloads)[1]
          /\ toUpdate' = Reconcile(store, {}, order, payloads)[2]
    /\ syncPc' = "final"
    /\ ClusterFrame
    /\ UNCHANGED <<cache, dirty, payloads, win, syncExit, ops>>

\* a store call of the transaction raises: sync() has no handler, the
\* transaction rolls back and the exception leaves sync() (clusters.py 148)
ClusterSyncFails ==
    /\ mgr = "clusters"
    /\ syncPc = "write"
    /\ syncPc' = "idle"
    /\ syncExit' = OnStoreError(mgr)
    /\ payloads' = NoFields
    /\ ClusterFrame
    /\ UNCHANGED <<cache, dirty, store, toUpdate, win, ops>>

\* last locked section: self._dirty -= succeeded_clusters (clusters.py 178-179)
ClusterSyncFinal ==
    /\ mgr = "clusters"
    /\ LockFree
    /\ syncPc = "final"
    /\ dirty' = dirty \ toUpdate
    /\ syncPc' = "idle"
    /\ payloads' = NoFields
    /\ toUpdate' = {}
    /\ win' = [cid \in ClusterIds |-> "clean"]
    /\ ClusterFrame
    /\ UNCHANGED <<cache, store, syncExit, ops>>

\* the chats table before the process starts, and the caches initialize()
\* builds from it (clusters.py 75-86)
InitClusters ==
    /\ mgr = "clusters"
    /\ store \in {{}, {[tg_chat_id |-> 1, cluster_id |-> 0]},
                  {[tg_chat_id |-> 1, cluster_id |-> 1]}}
    /\ cache = [cid \in ClusterIds |->
                   [id |-> cid, chat_ids |-> DbChats(store, cid)]]
    /\ nextId = 1
    /\ dirty = {}
    /\ pc = [c \in Clients |-> "idle"]
    /\ arg = [c \in Clients |-> NoArg]
    /\ syncPc = "idle"
    /\ payloads = NoFields
    /\ toUpdate = {}
    /\ toCreate = {}
    /\ win = [cid \in ClusterIds |-> "clean"]
    /\ kept = {}
    /\ removed = {}
    /\ syncExit = "returned"
    /\ ops = 0
    /\ closeAt = 0
    /\ closePc = "none"
    /\ finalSynced = {}
    /\ closeExit = "none"

----------------------------------------------------------------------------
(* managers.close() (managers/__init__.py 54-58): for manager in to_init:
   await manager.sync(); await manager.close().  The loop has no exception
   handler.  managers/base/manager.py is not part of the tree; as the
   specification describes it, BaseManager.sync hands over to sync() of the
   manager's cache and BaseManager.close performs one final sync(). *)

ToInit ==
    <<"chat_settings", "chats", "cluster_settings", "clusters", "global_bans",
      "invite_links", "invite_usage", "log_entries", "message_logs",
      "message_pins", "mutes", "news_broadcasts", "nicks", "reaction_watches",
      "user_roles", "users", "welcome_messages", "word_filters">>

Managers == {ToInit[i] : i \in DOMAIN ToInit}

\* the managers whose sync() calls the store at all: LogEntryCache and
\* NewsBroadcastCache only clear the dirty set, WordFilterCache.sync is
\* `pass`, MessageLogManager and ReactionWatchManager keep no cache
SyncsToStore(m) ==
    m \notin {"log_entries", "news_broadcasts", "word_filters",
              "message_logs", "reaction_watches"}

\* what a sync() call of manager m does to its caller when a store call of
\* it fails or not
SyncOutcome(m, fails) ==
    IF fails /\ SyncsToStore(m) THEN OnStoreError(m) ELSE "returned"

\* the shutdown half of lifespan (main.py 32-36), its first call:
\* await Tortoise.close_connections().  Under mgr = "managers" the store is
\* the set of open store connections.
CloseConnections ==
    /\ mgr = "managers"
    /\ closeExit = "none"
    /\ store # {}
    /\ store' = {}
    /\ UNCHANGED <<closeVars, mgr, cache, dirty, nextId, pc, arg, syncPc,
                   payloads, toUpdate, toCreate, win, kept, removed, syncExit,
                   ops>>

\* lifespan goes on to botservice.bot.session.close() and calls
\* managers.close() (main.py 34-35)
CloseStart ==
    /\ mgr = "managers"
    /\ closeExit = "none"
    /\ store = {}
    /\ closeAt' = 1
    /\ closePc' = "sync"
    /\ closeExit' = "running"
    /\ UNCHANGED <<mgr, cache, dirty, store, nextId, pc, arg, syncPc, payloads,
                   toUpdate, toCreate, win, kept, removed, syncExit, ops,
                   finalSynced>>

\* await manager.sync()
ManagerSync(fails) ==
    /\ mgr = "managers"
    /\ closeExit = "running"
    /\ closePc = "sync"
    /\ finalSynced' = finalSynced \cup {ToInit[closeAt]}
    /\ IF SyncOutcome(ToInit[closeAt], fails) = "raised"
       THEN /\ closeExit' = "raised"
            /\ closePc' = "done"
       ELSE /\ closeExit' = closeExit
            /\ closePc' = "close"
    /\ UNCHANGED <<mgr, cache, dirty, store, nextId, pc, arg, syncPc, payloads,
                   toUpdate, toCreate, win, kept, removed, syncExit, ops,
                   closeAt>>

\* await manager.close(), then the next manager; after the last one
\* pyrogram_client.stop() and close() returns
ManagerClose(fails) ==
    /\ mgr = "managers"
    /\ closeExit = "running"
    /\ closePc = "close"
    /\ IF SyncOutcome(ToInit[closeAt], fails) = "raised"
       THEN /\ closeExit' = "raised"
            /\ closePc' = "done"
            /\ closeAt' = closeAt
       ELSE IF closeAt < Len(ToInit)
       THEN /\ closeExit' = closeExit
            /\ closePc' = "sync"
            /\ closeAt' = closeAt + 1
       ELSE /\ closeExit' = "returned"
            /\ closePc' = "done"
            /\ closeAt' = closeAt
    /\ UNCHANGED <<mgr, cache, dirty, store, nextId, pc, arg, syncPc, payloads,
                   toUpdate, toCreate, win, kept, removed, syncExit, ops,
                   finalSynced>>

----------------------------------------------------------------------------
(* The /setrole and /removerole handlers (senior_moderator.py).  Under
   mgr = "handlers" the cache maps the users that have a UserRole record in
   the chat to the level of that record, and the store is the set of users
   for whom users.is_owner answers True.  A handler runs without suspension
   from its first read of a role to its call of add_role / remove_role (the
   manager locks are never held across an await), so that stretch is one
   step; the call into the manager is the next.  arg[c].op of an idle
   coroutine is the answer its last handler sent. *)

\* list(enums.Role) (enums.py 6-10); Role.level is the position in it
Roles == <<"user", "moderator", "senior_moderator", "admin">>

Levels == 0..(Len(Roles) - 1)

\* the users writing commands in the chat
Users == {1, 2}

\* the accounts a command can name: the users and the bot
Targets == Users \cup {3}

\* target_user_id == message.bot.id
IsBot(t) == t \notin Users

\* command.args as /setrole receives it: a word, or a number
RoleStrs == {[text |-> TRUE, n |-> 0]} \cup {[text |-> FALSE, n |-> i] : i \in -1..Len(Roles)}

\* list(enums.Role)[int(role_str)] (senior_moderator.py 464-467): int() of a
\* word raises ValueError, a negative index counts from the end of the list,
\* an index outside the list raises IndexError
ParseRole(a) ==
    IF a.text THEN [err |-> "ValueError", level |-> 0]
    ELSE IF a.n \in Levels THEN [err |-> "none", level |-> a.n]
    ELSE IF a.n + Len(Roles) \in Levels THEN [err |-> "none", level |-> a.n + Len(Roles)]
    ELSE [err |-> "IndexError", level |-> 0]

\* (await user_roles.get(key, "level") or enums.Role.user).level
RoleLevel(roles, u) == IF u \in DOMAIN roles THEN roles[u] ELSE 0

\* set_role from the parse of the role to the call of add_role
\* (senior_moderator.py 464-507): the answer sent, "add_role" for the call,
\* "raised" for the exception that no handler catches
SetRoleDecision(roles, owners, author, target, a) ==
    LET p == ParseRole(a)
    IN IF p.err = "ValueError" THEN "bad_role"
       ELSE IF p.err = "IndexError" THEN "raised"
       ELSE IF IsBot(target) THEN "bot"
       ELSE IF RoleLevel(roles, target) = p.level THEN "already"
       ELSE IF author \in owners THEN "add_role"
       ELSE IF target = author THEN "self"
       ELSE IF p.level >= RoleLevel(roles, author) THEN "role_too_high"
       ELSE IF target \in DOMAIN roles /\ roles[target] >= RoleLevel(roles, author)
            THEN "target_too_high"
       ELSE "add_role"

\* a faulty remove_role, which skips the comparison of the levels: C20 must
\* not survive it
RemoveRoleUnranked(roles, owners, author, target) ==
    IF target = author THEN "self"
    ELSE IF IsBot(target) THEN "bot"
    ELSE IF target \notin DOMAIN roles THEN "no_role"
    ELSE "remove_role"

\* remove_role from its first test to the call of user_roles.remove_role
\* (senior_moderator.py 552-578)
RemoveRoleDecision(roles, owners, author, target) ==
    IF target = author THEN "self"
    ELSE IF IsBot(target) THEN "bot"
    ELSE IF target \notin DOMAIN roles THEN "no_role"
    ELSE IF roles[target] >= RoleLevel(roles, author) /\ author \notin owners
         THEN "target_too_high"
    ELSE "remove_role"

\* the answers that refuse a command
Refusals == {"bad_role", "bot", "already", "self", "role_too_high",
             "target_too_high", "no_role"}

\* what the handlers leave alone
HandlerFrame == UNCHANGED <<closeVars, mgr, store, nextId, dirty, syncPc,
                            payloads, toUpdate, toCreate, win, kept, removed,
                            syncExit>>

\* /setrole with the target and the role string resolved (senior_moderator.py
\* 464-507)
SetRole(c, author, target, a) ==
    /\ mgr = "handlers"
    /\ Free(c)
    /\ ops' = ops + 1
    /\ LET d == SetRoleDecision(cache, store, author, target, a)
       IN IF d = "add_role"
          THEN /\ pc' = [pc EXCEPT ![c] = "add_role_io"]
               /\ arg' = [arg EXCEPT ![c] =
                             [op |-> "setrole", key |-> target,
                              fields |-> [level |-> ParseRole(a).level,
                                          author |-> author],
                              model |-> {}, raced |-> FALSE, detached |-> FALSE]]
          ELSE /\ pc' = pc
               /\ arg' = [arg EXCEPT ![c] = [NoArg EXCEPT !.op = d]]
    /\ cache' = cache
    /\ HandlerFrame

\* user_roles.add_role(target, chat, role, author) has run (senior_moderator.py
\* 507-509, user_roles.py 182-203) and the handler has answered
AddRoleDone(c) ==
    /\ mgr = "handlers"
    /\ pc[c] = "add_role_io"
    /\ cache' = Put(cache, arg[c].key, arg[c].fields.level)
    /\ pc' = [pc EXCEPT ![c] = "idle"]
    /\ arg' = [arg EXCEPT ![c] = [NoArg EXCEPT !.op = "role_set"]]
    /\ ops' = ops
    /\ HandlerFrame

\* /removerole with the target resolved (senior_moderator.py 552-578)
RemoveRole(c, author, target) ==
    /\ mgr = "handlers"
    /\ Free(c)
    /\ ops' = ops + 1
    /\ LET d == RemoveRoleDecision(cache, store, author, target)
       IN IF d = "remove_role"
          THEN /\ pc' = [pc EXCEPT ![c] = "remove_role_io"]
               /\ arg' = [arg EXCEPT ![c] =
                             [op |-> "removerole", key |-> target,
                              fields |-> [author |-> author],
                              model |-> {}, raced |-> FALSE, detached |-> FALSE]]
          ELSE /\ pc' = pc
               /\ arg' = [arg EXCEPT ![c] = [NoArg EXCEPT !.op = d]]
    /\ cache' = cache
    /\ HandlerFrame

\* user_roles.remove_role(target, chat) has run (senior_moderator.py 578,
\* user_roles.py 205-214) and the handler has answered
RemoveRoleDone(c) ==
    /\ mgr = "handlers"
    /\ pc[c] = "remove_role_io"
    /\ cache' = IF arg[c].key \in DOMAIN cache THEN Evict(cache, arg[c].key)
                ELSE cache
    /\ pc' = [pc EXCEPT ![c] = "idle"]
    /\ arg' = [arg EXCEPT ![c] = [NoArg EXCEPT !.op = "role_removed"]]
    /\ ops' = ops
    /\ HandlerFrame

\* the chat when the bot starts: any roles, and user 1 an owner or not
InitHandlers ==
    /\ mgr = "handlers"
    /\ \E D \in SUBSET Users : cache \in [D -> Levels]
    /\ store \in {{}, {1}}
    /\ nextId = 1
    /\ dirty = {}
    /\ pc = [c \in Clients |-> "idle"]
    /\ arg = [c \in Clients |-> NoArg]
    /\ syncPc = "idle"
    /\ payloads = NoFields
    /\ toUpdate = {}
    /\ toCreate = {}
    /\ win = [k \in Keys |-> "clean"]
    /\ kept = {}
    /\ removed = {}
    /\ syncExit = "returned"
    /\ ops = 0
    /\ closeAt = 0
    /\ closePc = "none"
    /\ finalSynced = {}
    /\ closeExit = "none"

----------------------------------------------------------------------------
(* The activate callback (invite_tracker.py 52-100).  Under mgr = "activate"
   there is one chat and the global cluster; the cache is the record of what
   the managers hold about them: the chat's cluster_id (0: None) and
   infinite_invite_link (0: None) in ChatCache, the global cluster's chat_ids
   in ClusterCache, and roles, the users with an admin UserRole in the chat.
   dirty holds the names of the managers whose dirty set contains the key of
   the chat, of the global cluster or of a role. *)

\* settings.ADMIN_TELEGRAM_IDS (config.py 24): user 1 is listed, user 2 not
AdminTelegramIds == {1}

\* activate, up to the call of chat_activation (invite_tracker.py 54-56):
\* chats.edit(chat, cluster_id=global_cluster.id) and
\* clusters.add_chat(global_cluster.id, chat)
ActivateJoin(c, u) ==
    /\ mgr = "activate"
    /\ Free(c)
    /\ ops' = ops + 1
    /\ cache' = [cache EXCEPT !.cluster_id = 1, !.chat_ids = @ \cup {1}]
    /\ dirty' = dirty \cup {"chats", "clusters"}
    /\ pc' = [pc EXCEPT ![c] = "chat_activation"]
    /\ arg' = [arg EXCEPT ![c] = [NoArg EXCEPT !.op = "activate", !.key = u]]
    /\ UNCHANGED <<closeVars, mgr, store, nextId, syncPc, payloads, toUpdate,
                   toCreate, win, kept, removed, syncExit>>

\* chat_activation answers False (user_roles.py 347-349) and the handler
\* returns with its refusal (invite_tracker.py 57-60)
ActivateRefused(c) ==
    /\ mgr = "activate"
    /\ pc[c] = "chat_activation"
    /\ arg[c].key \notin AdminTelegramIds
    /\ pc' = [pc EXCEPT ![c] = "idle"]
    /\ arg' = [arg EXCEPT ![c] = [NoArg EXCEPT !.op = "no_rights"]]
    /\ UNCHANGED <<closeVars, mgr, cache, dirty, store, nextId, syncPc,
                   payloads, toUpdate, toCreate, win, kept, removed, syncExit,
                   ops>>

\* chat_activation adds the admin role (user_roles.py 350-351; add_role
\* without assigned_by_tg marks nothing dirty, 189-197) and the handler sets
\* the invite link it created (invite_tracker.py 62-69)
ActivateGranted(c) ==
    /\ mgr = "activate"
    /\ pc[c] = "chat_activation"
    /\ arg[c].key \in AdminTelegramIds
    /\ cache' = [cache EXCEPT !.roles = @ \cup {arg[c].key},
                              !.infinite_invite_link = 1]
    /\ dirty' = dirty \cup {"chats"}
    /\ pc' = [pc EXCEPT ![c] = "idle"]
    /\ arg' = [arg EXCEPT ![c] = [NoArg EXCEPT !.op = "activated"]]
    /\ UNCHANGED <<closeVars, mgr, store, nextId, syncPc, payloads, toUpdate,
                   toCreate, win, kept, removed, syncExit, ops>>

\* the bot has been added to the chat (invite_tracker.py 39-49): the chat is
\* in no cluster and has no link, nothing is dirty
InitActivate ==
    /\ mgr = "activate"
    /\ cache = [cluster_id |-> 0, chat_ids |-> {}, roles |-> {},
                infinite_invite_link |-> 0]
    /\ store = {}
    /\ nextId = 1
    /\ dirty = {}
    /\ pc = [c \in Clients |-> "idle"]
    /\ arg = [c \in Clients |-> NoArg]
    /\ syncPc = "idle"
    /\ payloads = NoFields
    /\ toUpdate = {}
    /\ toCreate = {}
    /\ win = [k \in Keys |-> "clean"]
    /\ kept = {}
    /\ removed = {}
    /\ syncExit = "returned"
    /\ ops = 0
    /\ closeAt = 0
    /\ closePc = "none"
    /\ finalSynced = {}
    /\ closeExit = "none"

----------------------------------------------------------------------------
(* WordFilterCache (word_filter.py).  Under mgr = "word_filters" the chat is
   fixed, the cache maps the key's word to its record and the store holds the
   word_filters rows of the chat, at most one per word (models.py 362-364).
   kept collects the words for which an add_word has returned normally,
   removed those for which remove_word has been called. *)

\* the words the commands are given: one word in three casings, and another
Words == {"Bad", "BAD", "bad", "spam"}

\* a faulty str.lower, which leaves the word as it is: C22 must not survive it
LowerKeepsCase(w) == w

\* str.lower (word_filter.py 30, 74, 105)
Lower(w) == IF w \in {"Bad", "BAD"} THEN "bad" ELSE w

\* WordFilter.filter(chat_id=chat.id, word=w)
WordRows(S, w) == {r \in S : r.word = w}

\* get_chat_words (word_filter.py 112-116): how often the list holds w
GetChatWordsCount(c0, w) == Cardinality({k \in DOMAIN c0 : c0[k].word = w})

\* what the word filter calls leave alone
WordFrame == UNCHANGED <<closeVars, mgr, dirty, syncPc, payloads, toUpdate,
                         toCreate, win, syncExit>>

\* add_word, its first locked section (word_filter.py 73-79): a cached key
\* ends the call
AddWordStart(c, word) ==
    /\ mgr = "word_filters"
    /\ Free(c)
    /\ ops' = ops + 1
    /\ LET k == Lower(word)
       IN IF k \in DOMAIN cache
          THEN /\ kept' = kept \cup {k}
               /\ UNCHANGED <<pc, arg>>
          ELSE /\ pc' = [pc EXCEPT ![c] = "word_io"]
               /\ arg' = [Mark(arg, k, {"remove_word"}) EXCEPT ![c] =
                             [op |-> "add_word", key |-> k, fields |-> NoFields,
                              model |-> {}, raced |-> FALSE, detached |-> FALSE]]
               /\ kept' = kept
    /\ UNCHANGED <<cache, store, nextId, removed>>
    /\ WordFrame

\* WordFilter.create (word_filter.py 81-91) inserts the row
AddWordIO(c) ==
    /\ mgr = "word_filters"
    /\ pc[c] = "word_io"
    /\ WordRows(store, arg[c].key) = {}
    /\ nextId <= MaxId
    /\ store' = store \cup {[id |-> nextId, word |-> arg[c].key]}
    /\ nextId' = nextId + 1
    /\ arg' = [arg EXCEPT ![c].model = {[id |-> nextId, word |-> arg[c].key]}]
    /\ pc' = [pc EXCEPT ![c] = "word_commit"]
    /\ UNCHANGED <<cache, kept, removed, ops>>
    /\ WordFrame

\* WordFilter.create raises, IntegrityError when the chat has a row for the
\* word, or an error of the store: the exception leaves add_word
AddWordIOFails(c) ==
    /\ mgr = "word_filters"
    /\ pc[c] = "word_io"
    /\ pc' = [pc EXCEPT ![c] = "idle"]
    /\ arg' = [arg EXCEPT ![c] = NoArg]
    /\ UNCHANGED <<cache, store, nextId, kept, removed, ops>>
    /\ WordFrame

\* the unique index on (chat_id, word) (models.py 362-364) rejects the
\* insert of the call: WordFilter.create raises IntegrityError
WordUniqueViolation(c) ==
    /\ pc[c] = "word_io"
    /\ WordRows(store, arg[c].key) # {}

\* add_word, its second locked section (word_filter.py 93-102)
AddWordCommit(c) ==
    /\ mgr = "word_filters"
    /\ pc[c] = "word_commit"
    /\ cache' = Put(cache, arg[c].key, CHOOSE r \in arg[c].model : TRUE)
    /\ kept' = kept \cup {arg[c].key}
    /\ pc' = [pc EXCEPT ![c] = "idle"]
    /\ arg' = [arg EXCEPT ![c] = NoArg]
    /\ UNCHANGED <<store, nextId, removed, ops>>
    /\ WordFrame

\* remove_word, its locked section (word_filter.py 104-109)
RemoveWordStart(c, word) ==
    /\ mgr = "word_filters"
    /\ Free(c)
    /\ ops' = ops + 1
    /\ LET k == Lower(word)
       IN /\ cache' = IF k \in DOMAIN cache THEN Evict(cache, k) ELSE cache
          /\ pc' = [pc EXCEPT ![c] = "unword_io"]
          /\ arg' = [arg EXCEPT ![c] =
                        [op |-> "remove_word", key |-> k, fields |-> NoFields,
                         model |-> {}, raced |-> k \in InFlight,
                         detached |-> FALSE]]
          /\ removed' = removed \cup {k}
    /\ UNCHANGED <<store, nextId, kept>>
    /\ WordFrame

\* repo.delete_record executes (word_filter.py 43-47, 110)
RemoveWordIO(c) ==
    /\ mgr = "word_filters"
    /\ pc[c] = "unword_io"
    /\ store' = store \ WordRows(store, arg[c].key)
    /\ pc' = [pc EXCEPT ![c] = "idle"]
    /\ arg' = [arg EXCEPT ![c] = NoArg]
    /\ UNCHANGED <<cache, nextId, kept, removed, ops>>
    /\ WordFrame

\* the delete raises: the exception leaves remove_word
RemoveWordIOFails(c) ==
    /\ mgr = "word_filters"
    /\ pc[c] = "unword_io"
    /\ pc' = [pc EXCEPT ![c] = "idle"]
    /\ arg' = [arg EXCEPT ![c] = NoArg]
    /\ UNCHANGED <<cache, store, nextId, kept, removed, ops>>
    /\ WordFrame

\* WordFilterCache after initialize() (word_filter.py 57-71): no word, or
\* the row of one
InitWords ==
    /\ mgr = "word_filters"
    /\ store \in {{}, {[id |-> 1, word |-> "spam"]}}
    /\ nextId = Cardinality(store) + 1
    /\ cache = [k \in {r.word : r \in store} |-> CHOOSE r \in store : r.word = k]
    /\ dirty = {}
    /\ pc = [c \in Clients |-> "idle"]
    /\ arg = [c \in Clients |-> NoArg]
    /\ syncPc = "idle"
    /\ payloads = NoFields
    /\ toUpdate = {}
    /\ toCreate = {}
    /\ win = [k \in Keys |-> "clean"]
    /\ kept = {}
    /\ removed = {}
    /\ syncExit = "returned"
    /\ ops = 0
    /\ closeAt = 0
    /\ closePc = "none"
    /\ finalSynced = {}
    /\ closeExit = "none"

----------------------------------------------------------------------------
(* Init / Next *)

\* the table before the process starts: empty, or one row at its defaults;
\* the managers followed only through writes to cached keys start with the
\* row
ColdStores(m) ==
    IF m = "invite_links"
    THEN {{[NewRow(m, 1, 1, NoFields) EXCEPT !.max_uses = n]} : n \in MaxUses..MaxUsed}
    ELSE IF m \in {"mutes", "chat_settings"}
    THEN {{NewRow(m, 1, 1, NoFields)}}
    ELSE {{}, {NewRow(m, 1, 1, NoFields)}}

InitCache(m) ==
    /\ mgr = m
    /\ store \in ColdStores(m)
    /\ nextId = Cardinality(store) + 1
    /\ cache = Initialize(store)
    /\ dirty = {}
    /\ pc = [c \in Clients |-> "idle"]
    /\ arg = [c \in Clients |-> NoArg]
    /\ syncPc = "idle"
    /\ payloads = NoFields
    /\ toUpdate = {}
    /\ toCreate = {}
    /\ win = [k \in Keys |-> "clean"]
    /\ kept = {}
    /\ removed = {}
    /\ syncExit = "returned"
    /\ ops = 0
    /\ closeAt = 0
    /\ closePc = "none"
    /\ finalSynced = {}
    /\ closeExit = "none"

\* Tortoise.init(database_config) has opened the connection (main.py 16)
InitClose ==
    /\ mgr = "managers"
    /\ store = {"default"}
    /\ nextId = 1
    /\ cache = NoFields
    /\ dirty = {}
    /\ pc = [c \in Clients |-> "idle"]
    /\ arg = [c \in Clients |-> NoArg]
    /\ syncPc = "idle"
    /\ payloads = NoFields
    /\ toUpdate = {}
    /\ toCreate = {}
    /\ win = [k \in Keys |-> "clean"]
    /\ kept = {}
    /\ removed = {}
    /\ syncExit = "returned"
    /\ ops = 0
    /\ closeAt = 0
    /\ closePc = "none"
    /\ finalSynced = {}
    /\ closeExit = "none"

\* InviteUsageCache after initialize(): no usage row, or the one of the key
InitUsage == InitCache("invite_usage")

Init ==
    \/ \E m \in CacheManagers : InitCache(m)
    \/ InitClose
    \/ InitClusters
    \/ InitUsage
    \/ InitHandlers
    \/ InitWords
    \/ InitActivate

\* the keyword arguments of one edit() or add_mute(): one field of the record
EditArgs == {[f \in {g} |-> v] : g \in SyncFields(mgr), v \in Vals}

\* edit(key, tg_user_id=...) / edit(key, tg_chat_id=...): the keyword names
\* the key field of the record, with a value other than the key; hasattr is
\* true for it as for every field of the dataclass (users.py 180-182)
KeyEdits == {[f \in {KeyField(mgr)} |-> k + 1] : k \in Keys}

\* the defaults handed to ensure_user / ensure_chat
EnsureArgs == {NoFields} \cup EditArgs

Next ==
    \/ \E c \in Clients, k \in Keys, given \in EnsureArgs : EnsureStart(c, k, given)
    \/ \E c \in Clients, k \in Keys, fields \in EditArgs : EditCached(c, k, fields)
    \/ \E c \in Clients, k \in Keys, fields \in KeyEdits : EditCached(c, k, fields)
    \/ \E c \in Clients, k \in Keys, fields \in EditArgs : EditStart(c, k, fields)
    \/ \E c \in Clients : EnsureIO(c)
    \/ \E c \in Clients : EnsureIOFails(c)
    \/ \E c \in Clients : EnsureCommit(c)
    \/ \E c \in Clients, k \in Keys : RemoveStart(c, k)
    \/ \E c \in Clients : RemoveIO(c)
    \/ \E c \in Clients : RemoveIOFails(c)
    \/ \E c \in Clients, k \in Keys : IncrementMessagesCount(c, k)
    \/ \E c \in Clients, k \in Keys : IncrementUncached(c, k)
    \/ SyncSnapshot
    \/ SyncProbe
    \/ SyncUpdate
    \/ SyncCreate
    \/ SyncFinal
    \/ SyncFails
    \/ \E c \in Clients, k \in Keys, a \in AddRoleArgs : AddRoleCached(c, k, a)
    \/ \E c \in Clients, k \in Keys, a \in AddRoleArgs : AddRoleStart(c, k, a)
    \/ \E c \in Clients : AddRoleCommit(c)
    \/ \E c \in Clients : AddRoleAssign(c)
    \/ RoleSyncWrite
    \/ \E c \in Clients, k \in Keys, fields \in EditArgs : AddMuteCached(c, k, fields)
    \/ \E c \in Clients, k \in Keys, fields \in EditArgs : AddMuteStart(c, k, fields)
    \/ \E c \in Clients : AddMuteIO(c)
    \/ \E c \in Clients : AddMuteCommit(c)
    \/ \E c \in Clients, k \in Keys : RemoveMuteStart(c, k)
    \/ \E c \in Clients : RemoveMuteIO(c)
    \/ \E c \in Clients : RemoveMuteIOFails(c)
    \/ \E c \in Clients, k \in Keys, t \in Vals : AddUsageCached(c, k, t)
    \/ \E c \in Clients, k \in Keys, t \in Vals : AddUsageStart(c, k, t)
    \/ \E c \in Clients : AddUsageIO(c)
    \/ \E c \in Clients : AddUsageIOFails(c)
    \/ \E c \in Clients : AddUsageCommit(c)
    \/ \E c \in Clients, cid \in ClusterIds, t \in ChatIds : AddChat(c, cid, t)
    \/ \E c \in Clients, cid \in ClusterIds, t \in ChatIds : RemoveChat(c, cid, t)
    \/ \E c \in Clients, cid \in ClusterIds, t \in ChatIds : AddChatUncached(c, cid, t)
    \/ \E c \in Clients : AddChatLoaded(c)
    \/ \E c \in Clients, cid \in ClusterIds : RemoveClusterIO(c, cid)
    \/ \E c \in Clients : RemoveClusterEvict(c)
    \/ \E c \in Clients, cid \in ClusterIds, t \in ChatIds : WriteReturned(c, cid, t)
    \/ \E c \in Clients, cid \in ClusterIds, t \in ChatIds : WriteListed(c, cid, t)
    \/ \E c \in Clients, k \in Keys, fields \in EditArgs : WriteListedRecord(c, k, fields)
    \/ \E c \in Clients, t \in ChatIds : ChatCreated(c, t)
    \/ ClusterSyncSnapshot
    \/ ClusterSyncWrite
    \/ ClusterSyncFails
    \/ ClusterSyncFinal
    \/ \E c \in Clients, k \in Keys, v \in Vals : SetCached(c, k, v)
    \/ \E c \in Clients, k \in Tokens : IncrementUsage(c, k)
    \/ \E c \in Clients, k \in Keys, v \in Vals : SetStart(c, k, v)
    \/ \E c \in Clients : SetIO(c)
    \/ \E c \in Clients : SetCommit(c)
    \/ ClrSyncSnapshot
    \/ ClrSyncWrite
    \/ ClrSyncFinal
    \/ \E c \in Clients, author \in Users, target \in Targets, a \in RoleStrs :
          SetRole(c, author, target, a)
    \/ \E c \in Clients : AddRoleDone(c)
    \/ \E c \in Clients, author \in Users, target \in Targets :
          RemoveRole(c, author, target)
    \/ \E c \in Clients : RemoveRoleDone(c)
    \/ \E c \in Clients, word \in Words : AddWordStart(c, word)
    \/ \E c \in Clients : AddWordIO(c)
    \/ \E c \in Clients : AddWordIOFails(c)
    \/ \E c \in Clients : AddWordCommit(c)
    \/ \E c \in Clients, word \in Words : RemoveWordStart(c, word)
    \/ \E c \in Clients : RemoveWordIO(c)
    \/ \E c \in Clients : RemoveWordIOFails(c)
    \/ \E k \in Keys : ParentDeleted(k)
    \/ \E k \in Keys : ParentCreated(k)
    \/ \E c \in Clients, u \in Users : ActivateJoin(c, u)
    \/ \E c \in Clients : ActivateRefused(c)
    \/ \E c \in Clients : ActivateGranted(c)
    \/ \E fails \in BOOLEAN : ManagerSync(fails)
    \/ \E fails \in BOOLEAN : ManagerClose(fails)
    \/ CloseConnections
    \/ CloseStart

Spec == Init /\ [][Next]_vars

----------------------------------------------------------------------------
(* The properties. *)

\* the table holds a row for k that carries the record's persisted fields
RowMatches(S, rec, k) ==
    \E r \in RowsOf(S, k) : \A f \in SyncFields(mgr) : r[f] = rec[f]

\* no client coroutine and no sync() is in flight
Quiescent ==
    /\ \A c \in Clients : pc[c] = "idle"
    /\ syncPc = "idle"

\* the step in which sync() runs its last locked section and returns
SyncReturns == syncPc = "final" /\ syncPc' = "idle"

\* the step in which _ensure_cached runs its second locked section
EnsureCommits(c) == pc[c] = "ensure_commit" /\ pc'[c] # "ensure_commit"

\* the step in which a store call of sync() raises
SyncStoreError ==
    syncPc \in {"probe", "update", "create", "write"} /\ syncPc' = "idle"

\* C1, stated of one step
RetainedAndPersisted ==
    (mgr \in UCManagers /\ SyncReturns) =>
        /\ \A k \in DOMAIN payloads :
              (win[k] = "edited" /\ cache[k] # payloads[k]) => k \in dirty'
        /\ \A k \in kept : RowMatches(store', cache[k], k)

\* C1 (UserCache, ChatCache): a key edited or incremented while sync() was
\* between its snapshot and its last locked section, and whose cached record
\* no longer equals the snapshot, is still dirty when that sync() returns; and
\* the next sync() that completes, nothing having touched the key since,
\* leaves a store row that carries the cached fields of the key.
C1_RaceRetention == [][RetainedAndPersisted]_vars

\* C2, stated of one step
ClearedOnlyIfUnchanged ==
    (mgr \in {"mutes", "chat_settings", "invite_links"} /\ SyncReturns) =>
        \A k \in DOMAIN payloads :
           (k \in DOMAIN cache /\ cache[k] # payloads[k]) => k \in dirty'

\* C2 (MuteCache, ChatSettingCache, InviteLinkCache): when sync() runs its
\* last locked section, a snapshot key whose cached record no longer equals
\* the snapshot (add_mute, set or increment_usage ran on it meanwhile) is
\* still dirty afterwards.
C2_ClearingRaceRetention == [][ClearedOnlyIfUnchanged]_vars

\* C3, stated of one step
ReloadReadsFlushed ==
    (mgr \in UCManagers /\ SyncReturns) =>
        \A k \in DOMAIN payloads :
           win[k] = "clean" =>
              \A f \in SyncFields(mgr) :
                 Get(Initialize(store'), k, f) = Get(cache, k, f)

\* C3 (UserManager, ChatManager): when sync() completes and no client
\* touched a key of its snapshot meanwhile, a fresh instance that runs
\* initialize() on the store reads, for every persisted field, the value the
\* cache holds for that key.
C3_SyncDurability == [][ReloadReadsFlushed]_vars

\* C4 (UserRoleManager): when no call is in flight and no key is dirty, so
\* that the next sync() returns at its first test, the store row of every
\* cached (user, chat) has the cached level: a level set by add_role, with
\* or without assigned_by_tg, reaches the store by the next sync().
C4_RoleChangePersisted ==
    (mgr = "user_roles" /\ Quiescent /\ dirty = {}) =>
        \A k \in DOMAIN cache :
           \A r \in RowsOf(store, k) : r.level = cache[k].level

\* C5, stated of one step
OneRowOneEntry ==
    mgr \in RowManagers =>
        /\ \A k \in Keys : Cardinality(RowsOf(store', k)) <= 1
        /\ \A c \in Clients :
              (EnsureCommits(c) /\ ~arg[c].raced) =>
                  /\ arg[c].key \in DOMAIN cache'
                  /\ Cardinality(RowsOf(store', arg[c].key)) = 1

C6_RemoveSemantics ==
    mgr \in UCManagers =>
        \A k \in removed : k \notin DOMAIN cache /\ RowsOf(store, k) = {}

\* C7, stated of one step
EditThenGet ==
    mgr \in UCManagers =>
        \A c \in Clients :
           /\ (pc[c] = "idle" /\ pc' = pc /\ ops' = ops + 1) =>
                  \A k \in Keys, fields \in EditArgs :
                      EditCached(c, k, fields) =>
                          /\ \A f \in DOMAIN fields :
                                 Get(cache', k, f) = fields[f]
                          /\ store' = store
           /\ (/\ pc[c] = "ensure_commit" /\ arg[c].op = "edit"
               /\ EnsureCommit(c)) =>
                  /\ \A f \in DOMAIN arg[c].fields :
                         Get(cache', arg[c].key, f) = arg[c].fields[f]
                  /\ store' = store

CaughtAndStillDirty ==
    (mgr \in {"users", "chats", "cluster_settings"} /\ SyncStoreError) =>
        /\ syncExit' = "caught"
        /\ cache' = cache
        /\ \A k \in DOMAIN payloads : win[k] # "touched" => k \in dirty'

\* C8 (UserCache, ChatCache, ClusterSettingCache): when a store call of
\* sync() raises, sync() returns normally, the cache map is unchanged and
\* every snapshot key no remove touched meanwhile is still dirty.
C8_SyncFailureHandling == [][CaughtAndStillDirty]_vars

\* C9 (UserCache, ChatCache), as the final result of the flush: when nothing
\* is in flight and the dirty set is empty (every later sync() returns at its
\* first test), the store row of each cached key carries the cached fields.
C9_EventualFlush ==
    (mgr \in UCManagers /\ Quiescent /\ dirty = {}) =>
        \A k \in DOMAIN cache :
           \A r \in RowsOf(store, k) :
              \A f \in SyncFields(mgr) : r[f] = cache[k][f]

\* C10 (managers.close): when close() has ended, by returning or by an
\* exception, the final sync() of every manager of to_init was invoked.
C10_ShutdownFlushCoversAll ==
    (mgr = "managers" /\ closeExit \in {"returned", "raised"}) =>
        finalSynced = Managers

\* C11, stated of one step
NoStoreCallNoChange ==
    (/\ mgr \in CacheManagers
     /\ dirty = {}
     /\ SyncSnapshot \/ ClrSyncSnapshot)
    => /\ syncPc' = "idle"
       /\ syncExit' = "returned"
       /\ store' = store /\ nextId' = nextId
       /\ cache' = cache
       /\ dirty' = dirty

\* C11 (every cache of the model): sync() invoked while the dirty set is
\* empty returns from its first locked section: no store call is started,
\* nothing is raised, and the cache map and the dirty set are as before.
C11_NoOpSync == [][NoStoreCallNoChange]_vars

\* C11, its case: a cache with records, all of them flushed, on which sync()
\* may be invoked
C11_Witness ==
    /\ mgr \in CacheManagers
    /\ syncPc = "idle" /\ dirty = {} /\ ops > 0
    /\ \E k \in DOMAIN cache :
          \E f \in SyncFields(mgr) :
             cache[k][f] # 0 /\ \E r \in RowsOf(store, k) : r[f] = cache[k][f]

\* C12 (ClusterCache.get, the whole-record read): a write of the caller to
\* the object get() returned leaves the cached record as it was.
ReturnedIsACopy ==
    mgr = "clusters" =>
        \A c \in Clients, cid \in ClusterIds, t \in ChatIds :
           WriteReturned(c, cid, t) => cache' = cache

C12_GetReturnsCopy == [][ReturnedIsACopy]_vars

\* the chats that have a row in the chats table
StoredChats(S) == {r.tg_chat_id : r \in S}

\* the step in which the transaction of ClusterCache.sync commits
ClusterSyncCommits == mgr = "clusters" /\ syncPc = "write" /\ syncPc' = "final"

\* the step in which ClusterCache.sync runs its last locked section
ClusterSyncReturns == mgr = "clusters" /\ syncPc = "final" /\ syncPc' = "idle"

\* C16, stated of one step
Reconciled ==
    /\ ClusterSyncCommits =>
          \A cid \in DOMAIN payloads :
             payloads[cid].chat_ids \subseteq StoredChats(store) =>
                /\ DbChats(store', cid) = payloads[cid].chat_ids
                /\ win[cid] = "clean" =>
                      DbChats(store', cid) = cache[cid].chat_ids
                /\ cid \in toUpdate'
    /\ ClusterSyncReturns =>
          \A cid \in toUpdate : cid \notin dirty'

\* C16 (ClusterCache.sync): when the transaction of sync() commits, every
\* cluster of the snapshot all of whose chat_ids have a chats row owns in the
\* store exactly the chats of its snapshot (which are its cached chat_ids if
\* no call touched the cluster meanwhile) and is counted as succeeded; the
\* last locked section takes the succeeded clusters out of the dirty set.
C16_ClusterReconciliation == [][Reconciled]_vars

\* C17, stated of one step
DeferredThenAssigned ==
    /\ ClusterSyncCommits =>
          \A cid \in DOMAIN payloads :
             /\ ~(payloads[cid].chat_ids \subseteq StoredChats(store)) =>
                   cid \notin toUpdate'
             /\ \A t \in payloads[cid].chat_ids \cap StoredChats(store) :
                   t \in DbChats(store', cid)
    /\ ClusterSyncReturns =>
          \A cid \in (DOMAIN payloads) \ toUpdate : cid \in dirty'

\* C17 (ClusterCache.sync): a cluster of the snapshot one of whose chat_ids
\* has no chats row is not counted as succeeded and is still dirty when
\* sync() returns; and a sync() that runs when the chat has its row assigns
\* the chat to the cluster.
C17_DeferredAssignment == [][DeferredThenAssigned]_vars

\* C13, stated of one step of a call
FailedEnsureChangesNothing ==
    \A c \in Clients :
        /\ (pc[c] = "idle" /\ pc'[c] \in {"ensure_io", "usage_io"}) =>
               (cache' = cache /\ dirty' = dirty)
        /\ (pc[c] \in {"ensure_io", "usage_io"} /\ pc'[c] = "idle") =>
               (cache' = cache /\ dirty' = dirty /\ arg'[c] = NoArg)

\* C13: when repo.ensure_record raises during ensure, edit, add_role or
\* add_usage on an uncached key, the call ends at the raise (its second
\* locked section never runs), and neither the locked section before the
\* store call nor the raise changes the cache map or the dirty set.
C13_EnsureIOFailure ==
    [][(mgr \in RowManagers \cup {"invite_usage"}) => FailedEnsureChangesNothing]_vars

\* add_usage on a cold cache raised: one call was made, it is over, and
\* neither a record nor a row came of it
C13_Witness ==
    /\ mgr = "invite_usage"
    /\ ops = 1
    /\ \A c \in Clients : pc[c] = "idle"
    /\ DOMAIN cache = {}
    /\ dirty = {}
    /\ store = {}

\* C14, stated of one step of a call
FailedRemoveKeepsEviction ==
    \A c \in Clients :
        /\ (pc[c] = "idle" /\ pc'[c] \in {"remove_io", "unmute_io"}) =>
               /\ arg'[c].key \notin DOMAIN cache'
               /\ arg'[c].key \notin dirty'
               /\ store' = store
        /\ (RemoveIOFails(c) \/ RemoveMuteIOFails(c)) =>
               /\ cache' = cache
               /\ dirty' = dirty
               /\ store' = store
               /\ pc'[c] = "idle"

EnsureOnCachedKey ==
    \A c \in Clients, k \in Keys, given \in EnsureArgs :
        (k \in DOMAIN cache /\ EnsureStart(c, k, given)) =>
            /\ pc' = pc
            /\ store' = store
            /\ cache' = cache
            /\ dirty' = dirty
            /\ EnsureCachedResult(cache, k).created = {FALSE}

\* C15: ensure_user / ensure_chat on an already-cached key makes no store
\* call, leaves the cached record (the new defaults are ignored) and the dirty
\* set unchanged, and reports the record as not newly created.
C15_EnsureCachedKey ==
    [][(mgr \in UCManagers) => EnsureOnCachedKey]_vars

\* C18, the part stated of every state: the cached invite and the token
\* that no row carries
UsageDecidesValidity ==
    /\ \A k \in DOMAIN cache :
          /\ (cache[k].is_active = 0) <=> (cache[k].used_count >= cache[k].max_uses)
          /\ IsValid(cache, k) <=> (cache[k].used_count < cache[k].max_uses)
    /\ \A k \in Tokens \ DOMAIN cache : ~IsValid(cache, k)

\* C18, the part stated of one call of increment_usage
IncrementCounts ==
    \A c \in Clients, k \in Tokens :
        IncrementUsage(c, k) =>
            IF k \in DOMAIN cache
            THEN /\ cache'[k].used_count = cache[k].used_count + 1
                 /\ IncrementUsageLocked(cache, dirty, k)[3] = TRUE
            ELSE /\ IncrementUsageLocked(cache, dirty, k)[3] = FALSE
                 /\ cache' = cache
                 /\ dirty' = dirty
                 /\ store' = store

\* C18: for a cached invite with max_uses = m >= 1 and no expiry, every
\* increment_usage(token) adds one to used_count (n after n calls from 0) and
\* returns True, is_active is false iff used_count >= m, and is_valid(token)
\* is true iff used_count < m; increment_usage and is_valid on an unknown
\* token return False and change no state.
C18_InviteLinkUsage ==
    /\ [](mgr = "invite_links" => UsageDecidesValidity)
    /\ [][(mgr = "invite_links") => IncrementCounts]_vars

\* an invite of two uses has been used twice and is switched off
C18_Witness ==
    /\ mgr = "invite_links"
    /\ 1 \in DOMAIN cache
    /\ cache[1].max_uses = 2
    /\ cache[1].used_count = 2
    /\ cache[1].is_active = 0
    /\ ~IsValid(cache, 1)

\* C19, stated of one run of the handler
SetRoleAuthorized ==
    \A c \in Clients, author \in Users \ store, target \in Targets, a \in RoleStrs :
        SetRole(c, author, target, a) =>
            LET p == ParseRole(a)
                allowed == /\ p.err = "none"
                           /\ target # author
                           /\ ~IsBot(target)
                           /\ p.level < RoleLevel(cache, author)
                           /\ RoleLevel(cache, target) < RoleLevel(cache, author)
            IN /\ pc'[c] = "add_role_io" => allowed
               /\ ~allowed => (arg'[c].op \in Refusals /\ cache' = cache)

\* C19: when the author is not an owner, /setrole calls user_roles.add_role
\* only if the target is neither the author nor the bot, the requested role's
\* level is strictly below the author's and the target's current level is
\* strictly below the author's; in every other case it answers with a refusal
\* and changes no role.
C19_SetRoleAuthorization ==
    [][(mgr = "handlers") => SetRoleAuthorized]_vars

\* C20, stated of one run of the handler
RemoveRoleAuthorized ==
    \A c \in Clients, author \in Users, target \in Targets :
        RemoveRole(c, author, target) =>
            LET allowed == /\ target # author
                           /\ ~IsBot(target)
                           /\ \/ author \in store
                              \/ RoleLevel(cache, target) < RoleLevel(cache, author)
            IN /\ pc'[c] = "remove_role_io" => allowed
               /\ ~allowed => (arg'[c].op \in Refusals /\ cache' = cache)

\* C20: /removerole calls user_roles.remove_role only if the target is
\* neither the author nor the bot and the author is an owner or the target's
\* level is strictly below the author's; when the target is the author, the
\* bot, or an equal or higher ranked user of a non-owner author, it answers
\* with a refusal and removes nothing.
C20_RemoveRoleAuthorization ==
    [][(mgr = "handlers") => RemoveRoleAuthorized]_vars

\* a non-owner has had the role of a lower ranked user removed
C20_Witness ==
    /\ mgr = "handlers"
    /\ \E c \in Clients :
          /\ pc[c] = "idle"
          /\ arg[c].op = "role_removed"
    /\ store = {}
    /\ ops = 1

\* C21, stated of one run of the handler
InvalidRoleRejected ==
    \A c \in Clients, author \in Users, target \in Targets, a \in RoleStrs :
        (SetRole(c, author, target, a) /\ (a.text \/ a.n \notin Levels)) =>
            /\ arg'[c].op = "bad_role"
            /\ pc'[c] # "add_role_io"

\* C21: for every role argument that does not denote a valid role (a word,
\* an index outside the defined roles, a negative index) /setrole answers
\* with the 'invalid role' message, raises nothing and never calls
\* user_roles.add_role.
C21_SetRoleInputValidation ==
    [][(mgr = "handlers") => InvalidRoleRejected]_vars

\* the words of Words that differ only in letter case, class by class
Casings == {{"Bad", "BAD", "bad"}, {"spam"}}

\* C22, the part stated of every state: the words added and never removed
OneEntryPerWord ==
    \A C \in Casings :
        LET low == CHOOSE w \in C : \A r \in {"Bad", "BAD"} : w # r
        IN /\ (DOMAIN cache) \cap C \subseteq {low}
           /\ \A r \in store : r.word \in C => r.word = low
           /\ (kept \cap C # {} /\ removed \cap C = {}) =>
                 /\ low \in DOMAIN cache
                 /\ GetChatWordsCount(cache, low) = 1
                 /\ Cardinality(WordRows(store, low)) = 1

\* C22, the part stated of one remove_word
RemoveWordRemoves ==
    \A c \in Clients :
        /\ (pc[c] = "idle" /\ pc'[c] = "unword_io") =>
               arg'[c].key \notin DOMAIN cache'
        /\ (RemoveWordIO(c) /\ ~arg[c].raced) =>
               /\ arg[c].key \notin DOMAIN cache'
               /\ WordRows(store', arg[c].key) = {}

\* C22: after add_word calls whose words differ only in letter case the
\* cache holds exactly one entry, keyed by the lowercased word,
\* get_chat_words returns the lowercased word exactly once and the store
\* holds exactly one row for it; remove_word with any casing, when no
\* add_word of the word overlaps it, removes the entry from cache and store.
C22_WordFilterIdempotence ==
    /\ [](mgr = "word_filters" => OneEntryPerWord)
    /\ [][(mgr = "word_filters") => RemoveWordRemoves]_vars

\* two add_word calls of the word, the first through the store, have returned
C22_Witness ==
    /\ mgr = "word_filters"
    /\ ops = 2
    /\ \A c \in Clients : pc[c] = "idle"
    /\ Cardinality(WordRows(store, "bad")) = 1
    /\ kept = {"bad"}
    /\ removed = {}
    /\ "bad" \in DOMAIN cache

\* C23, stated of one write of a caller
ListedAreDeepCopies ==
    /\ \A c \in Clients, cid \in ClusterIds, t \in ChatIds :
          WriteListed(c, cid, t) => (cache' = cache /\ dirty' = dirty)
    /\ \A c \in Clients, k \in Keys, fields \in EditArgs :
          WriteListedRecord(c, k, fields) => (cache' = cache /\ dirty' = dirty)

\* C23: a write to an object returned by get_all_clusters (its chat_ids
\* included), get_user_roles / get_chat_roles or get_user_mutes /
\* get_chat_mutes changes neither the cache map nor the dirty set.
C23_ListAccessorsDeepCopy ==
    [][(mgr \in {"clusters", "user_roles", "mutes"}) => ListedAreDeepCopies]_vars

\* a caller has written to the chat_ids of a listed cluster
C23_Witness ==
    /\ mgr = "clusters"
    /\ \E c \in Clients : pc[c] = "idle" /\ arg[c].op = "wrote_listed"

\* C24 (UserCache, ChatCache): in every state in which no operation is in
\* flight, every cached record that has no store row, or whose persisted
\* fields differ from its store row, has its key in the dirty set.
C24_DirtyTrackingSoundness ==
    (mgr \in UCManagers /\ Quiescent) =>
        \A k \in DOMAIN cache : ~RowMatches(store, cache[k], k) => k \in dirty

\* C25: in every reachable state of every cache the dirty set is a subset
\* of the keys of the cache map, under any interleaving of edit, add_role,
\* remove, remove_role and sync.
C25_DirtySubsetOfCache ==
    (mgr \in CacheManagers \cup {"clusters", "invite_usage"}) =>
        dirty \subseteq DOMAIN cache

\* C26, stated of one step: the step in which MuteCache.sync() returns
SkippedStaysDirty ==
    (mgr = "mutes" /\ SyncReturns) =>
        \A k \in dirty \ dirty' : k \in toUpdate \/ k \notin DOMAIN cache

\* C26 (MuteCache): a key leaves the dirty set in sync() only if this sync's
\* transaction wrote the key's snapshot value or the key is no longer cached;
\* a dirty key whose payload sync() skipped because the users row it refers
\* to does not exist is still dirty when sync() returns.
C26_SkippedKeysStayDirty == [][SkippedStaysDirty]_vars

\* C27, stated of one step: a step of sync() that changes the table
FlushedIsSnapshot ==
    (mgr \in RowManagers \cup ClrManagers /\ syncPc' # syncPc
                                         /\ store' # store) =>
        \A r \in store' \ store :
            /\ r[KeyField(mgr)] \in DOMAIN payloads
            /\ \A f \in SyncFields(mgr) :
                   r[f] = payloads[r[KeyField(mgr)]][f]

\* C27: every row a sync() writes carries, in every persisted field, the
\* value the cached record had when that sync took its snapshot: not an
\* earlier value and not the value of an edit made after the snapshot.
C27_FlushedValueIsSnapshot == [][FlushedIsSnapshot]_vars

\* C29, stated of one step: a final sync() of managers.close() starts
FinalSyncOnOpenStore ==
    (mgr = "managers" /\ finalSynced' # finalSynced) => store # {}

\* C29: in the shutdown of lifespan the final sync() of every manager
\* (managers.close()) runs before Tortoise.close_connections() releases the
\* store connections: every final sync starts with the connections open.
C29_ShutdownOrdering == [][FinalSyncOnOpenStore]_vars

\* the coroutine is suspended in a call of its Repository or of the ORM
InStoreCall(c) ==
    pc[c] \in {"ensure_io", "remove_io", "add_role_io", "assign_io",
               "remove_role_io", "set_io", "unmute_io", "usage_io", "word_io",
               "unword_io", "add_chat_io"}

\* the coroutine is inside `async with self._lock`
HoldsLock(c) == pc[c] = "add_chat_io"

\* C28: no store operation is performed while the manager's lock is held;
\* in every operation the lock is released before a Repository or ORM call
\* starts and taken again only after the call has returned.
C28_NoStoreCallUnderLock ==
    \A c \in Clients : InStoreCall(c) => ~HoldsLock(c)

\* C30, stated of one step: the step in which the store delete of a remove
\* executes
DeletedIsNotCached ==
    mgr \in UCManagers \cup {"mutes", "clusters"} =>
        \A c \in Clients :
            /\ RemoveIO(c) \/ RemoveMuteIO(c) => arg[c].key \notin DOMAIN cache'
            /\ \A cid \in ClusterIds :
                   RemoveClusterIO(c, cid) => cid \notin DOMAIN cache'

\* C30 (UserCache.remove, MuteCache.remove_mute, ClusterCache.remove_cluster):
\* the key is evicted from the cache map and the dirty set before the store
\* delete is issued, so when the delete has executed no reader can get a
\* cached record of the key whose row that remove has deleted.
C30_RemoveOrdering == [][DeletedIsNotCached]_vars

\* C31, stated of one step
EditsInLockOrder ==
    mgr \in UCManagers =>
        /\ \A c \in Clients :
               (pc[c] = "idle" /\ pc' = pc /\ ops' = ops + 1) =>
                   \A k \in Keys, fields \in EditArgs :
                       EditCached(c, k, fields) =>
                           /\ k \in DOMAIN cache' /\ k \in dirty'
                           /\ \A f \in DOMAIN fields : cache'[k][f] = fields[f]
        /\ \A c \in Clients :
               (pc[c] = "ensure_commit" /\ arg[c].op = "edit"
                                       /\ pc'[c] = "idle") =>
                   /\ arg[c].key \in DOMAIN cache' /\ arg[c].key \in dirty'
                   /\ \A f \in DOMAIN arg[c].fields :
                          cache'[arg[c].key][f] = arg[c].fields[f]
        /\ \A c \in Clients :
               (\/ (pc[c] = "idle" /\ pc'[c] = "ensure_io"
                                  /\ arg'[c].op = "edit")
                \/ (pc[c] = "ensure_io" /\ arg[c].op = "edit"
                                        /\ pc'[c] # pc[c]))
               => cache' = cache /\ dirty' = dirty
        /\ (SyncReturns /\ toCreate = {}) =>
               \A k \in DOMAIN payloads \cap DOMAIN cache :
                  win[k] = "clean" => RowMatches(store', cache[k], k)

C32_KeyFieldsImmutable ==
    mgr \in UCManagers =>
        \A k \in DOMAIN cache : cache[k][KeyField(mgr)] = k

\* the cache of a fresh manager after initialize() on table S: one record per
\* row, under the row's business key, with the row's field values
LoadedExactly(c0, S) ==
    /\ DOMAIN c0 = {r[KeyField(mgr)] : r \in S}
    /\ Cardinality(DOMAIN c0) = Cardinality(S)
    /\ \A r \in S : \A f \in RecordFields(mgr) : c0[r[KeyField(mgr)]][f] = r[f]

NoResurrection ==
    (mgr \in UCManagers /\ SyncReturns) =>
        \A k \in DOMAIN payloads \cap removed : RowsOf(store', k) = {}

\* C34 (UserCache, ChatCache): when a remove(key) that nothing overlapped
\* has completed between the snapshot of a sync() that contains key and the
\* return of that sync(), the table has no row for key once both have
\* finished: the sync does not create again a row that remove has deleted.
C34_NoResurrectionBySync == [][NoResurrection]_vars

\* C35, stated of one step: the step in which add_role runs its second
\* locked section, on the record object r it read before the await
AddRoleWritesCachedRecord ==
    mgr = "user_roles" =>
        \A c \in Clients :
            AddRoleAssign(c) =>
                arg[c].key \in DOMAIN cache /\ ~arg[c].detached

\* C35 (UserRoleCache): when remove_role(u, c) runs during an unlocked await
\* of add_role(u, c, ...), add_role does not raise KeyError and the record
\* object it then writes is still the one the cache map holds for (u, c).
C35_AddRoleSafeAgainstRemove == [][AddRoleWritesCachedRecord]_vars

\* C36, stated of one step: the step in which add_mute returns
AddMuteApplied ==
    mgr = "mutes" =>
        \A c \in Clients :
            /\ \A k \in Keys, fields \in EditArgs :
                   AddMuteCached(c, k, fields) =>
                       \A f \in DOMAIN fields : Get(cache', k, f) = fields[f]
            /\ AddMuteCommit(c) =>
                   \A f \in DOMAIN arg[c].fields :
                       Get(cache', arg[c].key, f) = arg[c].fields[f]

\* C36 (MuteCache): when add_mute(u, c, **fields) returns, the cached mute of
\* (u, c) has every given field at the given value, whether the key was
\* cached before the call or not, a store row existing already or another
\* add_mute of the same uncached key running concurrently included.
C36_AddMuteTakesEffect == [][AddMuteApplied]_vars

\* C37, stated of one step: a step of the activate handler run for a user
\* who is not in ADMIN_TELEGRAM_IDS
UnauthorizedChangesNothing ==
    mgr = "activate" =>
        \A c \in Clients :
            /\ \A u \in Users \ AdminTelegramIds :
                   ActivateJoin(c, u) => cache' = cache /\ dirty' = dirty
            /\ ActivateRefused(c) => cache' = cache /\ dirty' = dirty

\* C37: when the user who triggers the activate callback is not in
\* ADMIN_TELEGRAM_IDS, the handler leaves the managers' state as it was: the
\* chat's cluster_id and infinite_invite_link, the global cluster's chat_ids,
\* the user roles, and the dirty sets.
C37_UnauthorizedActivation == [][UnauthorizedChangesNothing]_vars

\* C38, stated of one step
IncrementIsAtomic ==
    mgr = "users" =>
        \A c \in Clients :
            (pc[c] = "idle" /\ pc' = pc /\ ops' = ops + 1) =>
                \A k \in Keys :
                    /\ IncrementMessagesCount(c, k) =>
                           /\ DOMAIN cache' = DOMAIN cache
                           /\ cache'[k].messages_count
                                  = cache[k].messages_count + 1
                           /\ \A f \in DOMAIN cache[k] \ {"messages_count"} :
                                  cache'[k][f] = cache[k][f]
                           /\ \A j \in DOMAIN cache \ {k} : cache'[j] = cache[j]
                           /\ k \in dirty'
                           /\ store' = store
                    /\ IncrementUncached(c, k) =>
                           /\ cache' = cache /\ dirty' = dirty
                           /\ store' = store

SecondAddWordSucceeds ==
    mgr = "word_filters" =>
        \A c, d \in Clients :
            (/\ c # d
             /\ pc[c] = "word_io" /\ pc[d] = "word_io"
             /\ arg[c].key = arg[d].key
             /\ AddWordIO(d)) => ~WordUniqueViolation(c)'

\* C39 (WordFilterCache): two add_word calls for the same (chat, word) that
\* both pass the cache-miss check before either inserts leave exactly one
\* store row and one cache entry for the word, and neither call fails: the
\* insert of the one does not make the insert of the other raise.
C39_ConcurrentAddWord ==
    /\ [](mgr = "word_filters" =>
             \A w \in Words :
                 /\ Cardinality(WordRows(store, Lower(w))) <= 1
                 /\ GetChatWordsCount(cache, Lower(w)) <= 1)
    /\ [][SecondAddWordSucceeds]_vars

====
